---- MODULE Spec2Model ----
(***************************************************************************)
(* A model of FluxGate's vector index (semantic_router/index/faiss.py) and *)
(* of its embedding client (semantic_router/encoders/siliconflow.py).      *)
(*                                                                         *)
(* The index is modelled with the fields of FaissIndex: the faiss flat     *)
(* index object, and the routes, utterances and metadata numpy arrays,     *)
(* each of which may be None.  Every array element carries a provenance    *)
(* tag `id` next to its value `v`: the tag is given to the four parts of   *)
(* one record when add() stores it and is never read by the modelled code; *)
(* it only lets the properties say which record an element belongs to.     *)
(***************************************************************************)
EXTENDS Integers, Sequences, FiniteSets, TLC

\* FaissIndex: its fields, and the outcome of the last call (ret)
VARIABLES index, routes, utterances, metadata, dimension, ret

\* the route names a delete call has returned for, no add having stored a
\* record of theirs since
VARIABLES deleted

\* whether an add call has stored records: ever, and since the index was
\* constructed or last reset by delete_index
VARIABLES adds
\* The frame of a delete call that another thread may interleave with: where
\* the call stands, its locals, and what a reader saw of the index meanwhile
VARIABLES inflight

\* SiliconFlowEncoder: the instance (model_name, max_retries), one call of
\* __call__ or acall (variant, docs, truncate), the call's local variables
\* (loop_i, loop_j, embeds, all_embeddings), where it stands (pc) and what it
\* returned (result); and a record of what the call did to the provider and
\* the clock (last_outcome, calls, batch_calls, requested, backoffs, delays)
VARIABLES model_name, max_retries, variant, texts, docs, truncate, pc, loop_i, loop_j,
          embeds, all_embeddings, result, last_outcome, calls, batch_calls,
          requested, backoffs, delays

\* the acall invocations that run concurrently on the instance: for each, its
\* arguments, its local variables and the await it is suspended at
VARIABLES tasks

\* the threshold classifier: the routes' thresholds, the router-wide default,
\* the aggregation in use, and the hits and the answer of the last classify
VARIABLES cls

\* IntentRouterTrainer and IntentRouterPredictor, each with the outcome of its
\* last call, and the model files save_model has written
VARIABLES trainer, predictor, files

idxVars == <<index, routes, utterances, metadata, dimension, ret, deleted, adds,
            inflight>>
callVars == <<model_name, max_retries, variant, texts, docs, truncate, pc, loop_i,
              loop_j, embeds, all_embeddings, result, last_outcome, calls,
              batch_calls, requested, backoffs, delays>>
appVars == <<trainer, predictor, files>>
encVars == <<callVars, tasks, cls, appVars>>
vars == <<idxVars, encVars>>

-----------------------------------------------------------------------------
(* Bounds of the model. *)

\* capacity of the index in the model: add is not called beyond it
MaxRecords == 3

(* Input pools. *)
RouteNames == {"r1", "r2"}
UtteranceTexts == {"u1", "u2"}
\* the records add is called with: three of dimension 1 (any two of them share
\* a route, an utterance or a vector and differ in the rest; two of them come
\* with metadata) and one of dimension 2
NoMeta == "none"
RecordPool ==
    {[embedding |-> <<0>>, route |-> "r1", utterance |-> "u1", meta |-> "mA"],
     [embedding |-> <<2>>, route |-> "r1", utterance |-> "u2", meta |-> NoMeta],
     [embedding |-> <<2>>, route |-> "r2", utterance |-> "u1", meta |-> "mC"],
     [embedding |-> <<1, 1>>, route |-> "r1", utterance |-> "u1", meta |-> NoMeta]}
\* the number of records of one add call
AddLens == {1, 2}
\* the query vectors and the top_k values of query
QueryPool == {<<0>>, <<1>>, <<1, 1>>, <<0, 1>>}
TopKs == {1, 2, 4}
RouteFilters == {{"r1"}, {"r2"}}
\* the dictionaries _remove_and_sync is called with, as sets of pairs
RemovePool ==
    {{}, {<<"r1", "u1">>}, {<<"r2", "u1">>}, {<<"r1", "u1">>, <<"r1", "u2">>},
     {<<"r1", "u2">>, <<"r2", "u2">>}}
\* the metadata add stores for a record that comes without: {}
EmptyMeta == "{}"

-----------------------------------------------------------------------------
(* Python values. *)

None == [none |-> TRUE]
Some(x) == [none |-> FALSE, val |-> x]
IsNone(x) == x.none

\* a sequence of values, tagged with the ids of the records they belong to
Tagged(vals, ids) == [i \in 1..Len(vals) |-> [id |-> ids[i], v |-> vals[i]]]
Values(arr) == [i \in 1..Len(arr) |-> arr[i].v]
Ids(arr) == [i \in 1..Len(arr) |-> arr[i].id]

\* arr[mask] for a boolean mask of the same length (numpy boolean indexing)
MaskSelect(arr, mask) ==
    LET F[i \in 0..Len(arr)] ==
            IF i = 0 THEN <<>>
            ELSE IF mask[i] THEN Append(F[i - 1], arr[i]) ELSE F[i - 1]
    IN  F[Len(arr)]

\* the positions (1-based, ascending) whose value is in S: np.where(...)[0]
Where(arr, S) ==
    LET F[i \in 0..Len(arr)] ==
            IF i = 0 THEN <<>>
            ELSE IF arr[i].v \in S THEN Append(F[i - 1], i) ELSE F[i - 1]
    IN  F[Len(arr)]

Range(s) == {s[i] : i \in 1..Len(s)}

-----------------------------------------------------------------------------
(* FaissIndex state. *)

\* number of vectors held by the faiss index object (index.ntotal)
ntotal == IF IsNone(index) THEN 0 ELSE Len(index.val)

\* The tags are kept canonical: after every call the tags in use are renamed,
\* the same way in all four arrays and keeping their order, to 1..n.
Rank(t, S) == Cardinality({u \in S : u <= t})
Retag(arr, S) == [i \in 1..Len(arr) |-> [id |-> Rank(arr[i].id, S), v |-> arr[i].v]]
TagsOf(xb, r, u, m) ==
    Range(Ids(xb)) \cup Range(Ids(r)) \cup Range(Ids(u)) \cup Range(Ids(m))

\* self.index, self.routes, self.utterances, self.metadata := xb, r, u, m
\* (m is an Optional array; the others are arrays)
Assign(xb, r, u, m) ==
    LET S == TagsOf(xb, r, u, IF IsNone(m) THEN <<>> ELSE m.val)
    IN  /\ index' = Some(Retag(xb, S))
        /\ routes' = Some(Retag(r, S))
        /\ utterances' = Some(Retag(u, S))
        /\ metadata' = IF IsNone(m) THEN m ELSE Some(Retag(m.val, S))

\* tags no stored element carries, for the n records of an add call
FreshIds(n) == [i \in 1..n |-> 4 * MaxRecords + i]

IndexInit ==
    /\ index = None
    /\ routes = None
    /\ utterances = None
    /\ metadata = None
    /\ dimension = None
    /\ ret = [op |-> "init", outcome |-> "ok"]
    /\ deleted = {}
    /\ adds = [ever |-> FALSE, since_reset |-> FALSE]
    /\ inflight = <<>>
    \* no encoder call is under way
    /\ model_name = "BAAI/bge-large-zh-v1.5"
    /\ max_retries = 0
    /\ variant = "__call__"
    /\ truncate = TRUE
    /\ texts = <<>>
    /\ docs = <<>>
    /\ pc = "idle"
    /\ loop_i = 0
    /\ loop_j = 0
    /\ embeds = None
    /\ all_embeddings = <<>>
    /\ result = [status |-> "pending", error |-> "", value |-> <<>>]
    /\ last_outcome = ""
    /\ calls = 0
    /\ batch_calls = 0
    /\ requested = {}
    /\ backoffs = <<>>
    /\ delays = 0
    /\ tasks = <<>>
    /\ cls = <<>>
    /\ trainer = <<>>
    /\ predictor = <<>>
    /\ files = <<>>

-----------------------------------------------------------------------------
(* add *)

\* (a variant of Shape1 that reads the number of rows)
Shape0(embeddings) == Len(embeddings)

\* embeds.shape[1]
Shape1(embeddings) == Len(embeddings[1])

\* (a variant of MetadataArray that forgets the default)
MetadataArrayNoDefault(metadata_list, new_utterances) == metadata_list

\* np.array(metadata_list) if metadata_list else np.array([{} for _ in utterances])
MetadataArray(metadata_list, new_utterances) ==
    IF metadata_list # <<>>
    THEN metadata_list
    ELSE [i \in 1..Len(new_utterances) |-> EmptyMeta]

\* (a variant of DimensionMismatch that accepts every dimension)
DimensionNeverMismatch(embeddings) == FALSE

\* the check `embeds.shape[1] != self.dimension` of the populated branch
DimensionMismatch(embeddings) == Shape1(embeddings) # dimension.val

\* (a variant of Concatenate that puts the new elements first)
ConcatenateNewFirst(a, b) == b \o a

\* np.concatenate([a, b])
Concatenate(a, b) == a \o b

\* faiss index.add(embeds): the vectors go after the stored ones
IndexAdd(xb, new_xb) == xb \o new_xb

Max(a, b) == IF a >= b THEN a ELSE b

Add(embeddings, new_routes, new_utterances, metadata_list) ==
    LET meta == MetadataArray(metadata_list, new_utterances)
        ids == FreshIds(Max(Max(Len(embeddings), Len(new_routes)),
                            Max(Len(new_utterances), Len(meta))))
        embeds_arr == Tagged(embeddings, ids)
        routes_arr == Tagged(new_routes, ids)
        utterances_arr == Tagged(new_utterances, ids)
        meta_arr == Tagged(meta, ids)
        call(outcome) ==
            [op |-> "add", outcome |-> outcome, embeddings |-> embeddings,
             routes |-> new_routes, utterances |-> new_utterances,
             metadata_list |-> metadata_list]
    IN  IF IsNone(index)
        THEN /\ dimension' = Some(Shape1(embeddings))
             /\ Assign(IndexAdd(<<>>, embeds_arr), routes_arr, utterances_arr,
                       Some(meta_arr))
             /\ ret' = call("ok")
        ELSE IF DimensionMismatch(embeddings)
        THEN /\ ret' = call("ValueError")
             /\ UNCHANGED <<index, routes, utterances, metadata, dimension>>
        ELSE /\ Assign(IndexAdd(index.val, embeds_arr),
                       Concatenate(routes.val, routes_arr),
                       Concatenate(utterances.val, utterances_arr),
                       IF ~IsNone(metadata)
                       THEN Some(Concatenate(metadata.val, meta_arr))
                       ELSE Some(meta_arr))
             /\ ret' = call("ok")
             /\ UNCHANGED dimension

-----------------------------------------------------------------------------
(* delete, _remove_and_sync, delete_index *)

\* np.where(self.routes == route_name)[0]: the matching positions, 0-based
GetIndicesForRoute(route_name) ==
    LET pos == Where(routes.val, {route_name})
    IN  [i \in 1..Len(pos) |-> pos[i] - 1]

\* bool(arr) of a numpy integer array, as `not delete_idx` evaluates it: an
\* array of one element has the truth value of that element, one of several
\* elements has none (ValueError), and an empty one is False with a
\* deprecation warning or, from numpy 2.2 on, a ValueError.
ArrayTruth(arr) ==
    IF Len(arr) = 0 THEN {"False", "ValueError"}
    ELSE IF Len(arr) = 1 THEN {IF arr[1] # 0 THEN "True" ELSE "False"}
    ELSE {"ValueError"}

\* mask = np.ones(n, dtype=bool); mask[delete_idx] = False
DeleteMask(n, delete_idx) == [i \in 1..n |-> (i - 1) \notin Range(delete_idx)]

Delete(route_name) ==
    LET call(outcome, error) ==
            [op |-> "delete", outcome |-> outcome, error |-> error,
             route_name |-> route_name]
    IN  IF ~IsNone(index) /\ ~IsNone(routes) /\ ~IsNone(utterances)
        THEN LET delete_idx == GetIndicesForRoute(route_name)
                 mask == DeleteMask(Len(routes.val), delete_idx)
             IN  \E truth \in ArrayTruth(delete_idx) :
                    IF truth = "ValueError"
                    THEN /\ ret' = call("ValueError",
                                         "The truth value of an array is ambiguous.")
                         /\ UNCHANGED <<index, routes, utterances, metadata,
                                        dimension>>
                    ELSE IF truth = "False"
                    THEN \* `if not delete_idx: return`
                         /\ ret' = call("ok", "")
                         /\ UNCHANGED <<index, routes, utterances, metadata,
                                        dimension>>
                    ELSE IF Len(mask) # ntotal
                    THEN \* reconstruct_n(...)[mask] with a mask of another length
                         /\ ret' = call("IndexError", "boolean index did not match")
                         /\ UNCHANGED <<index, routes, utterances, metadata,
                                        dimension>>
                    ELSE /\ Assign(MaskSelect(index.val, mask),
                                   MaskSelect(routes.val, mask),
                                   MaskSelect(utterances.val, mask),
                                   IF ~IsNone(metadata)
                                   THEN Some(MaskSelect(metadata.val, mask))
                                   ELSE metadata)
                         /\ ret' = call("ok", "")
                         /\ UNCHANGED dimension
        ELSE /\ ret' = call("ValueError",
                             "Attempted to delete route records but either index, routes or utterances is None.")
             /\ UNCHANGED <<index, routes, utterances, metadata, dimension>>

\* (a variant of RemoveMask that drops every record of a listed route)
RemoveMaskByRoute(routes_to_delete) ==
    [i \in 1..Len(routes.val) |->
        ~(\E p \in routes_to_delete : routes.val[i].v = p[1])]

\* the keep-mask of _remove_and_sync: routes_to_delete is given as the set of
\* (route, utterance) pairs the dictionary lists
RemoveMask(routes_to_delete) ==
    [i \in 1..Len(routes.val) |->
        ~(\E p \in routes_to_delete :
            routes.val[i].v = p[1] /\ utterances.val[i].v = p[2])]

RemoveAndSync(routes_to_delete) ==
    LET call(outcome, removed) ==
            [op |-> "_remove_and_sync", outcome |-> outcome,
             routes_to_delete |-> routes_to_delete, removed |-> removed]
    IN  IF IsNone(index) \/ IsNone(routes) \/ IsNone(utterances)
        THEN /\ ret' = call("ValueError", <<>>)
             /\ UNCHANGED <<index, routes, utterances, metadata, dimension>>
        ELSE IF Len(routes.val) # Len(utterances.val)
                \/ Len(routes.val) # ntotal
        THEN \* np.array([routes, utterances]).T or the boolean index fails
             /\ ret' = call("IndexError", <<>>)
             /\ UNCHANGED <<index, routes, utterances, metadata, dimension>>
        ELSE LET mask == RemoveMask(routes_to_delete)
                 inverse == [i \in 1..Len(mask) |-> ~mask[i]]
                 route_utterances ==
                     [i \in 1..Len(routes.val) |->
                         <<routes.val[i].v, utterances.val[i].v>>]
             IN  /\ Assign(MaskSelect(index.val, mask),
                           MaskSelect(routes.val, mask),
                           MaskSelect(utterances.val, mask),
                           IF ~IsNone(metadata)
                           THEN Some(MaskSelect(metadata.val, mask))
                           ELSE metadata)
                 /\ ret' = call("ok", MaskSelect(route_utterances, inverse))
                 /\ UNCHANGED dimension

DeleteIndex ==
    /\ index' = None
    /\ routes' = None
    /\ utterances' = None
    /\ metadata' = None
    /\ dimension' = None
    /\ ret' = [op |-> "delete_index", outcome |-> "ok"]

-----------------------------------------------------------------------------
(* query *)

\* the distance faiss reports for a result slot it could not fill (the
\* largest float32, 3.4028235e38); it stands above every distance of the model
FLT_MAX == 1000000

\* squared L2 distance, as IndexFlatL2 reports it
L2sqr(a, b) ==
    LET F[i \in 0..Len(a)] ==
            IF i = 0 THEN 0 ELSE F[i - 1] + (a[i] - b[i]) * (a[i] - b[i])
    IN  F[Len(a)]

\* the orders in which the positions S of xb can be reported: by increasing
\* distance to q, the order among equal distances being faiss's choice
RECURSIVE Nearest(_, _, _)
Nearest(xb, q, S) ==
    IF S = {} THEN {<<>>}
    ELSE LET first == {i \in S : \A j \in S : L2sqr(xb[i].v, q) <= L2sqr(xb[j].v, q)}
         IN  UNION {{<<i>> \o rest : rest \in Nearest(xb, q, S \ {i})} : i \in first}

\* IndexFlatL2.search of one query vector: the possible (distances, labels)
\* answers. The k slots hold the nearest vectors by increasing distance, and
\* the slots beyond the number of vectors hold label -1 and distance FLT_MAX.
Search(xb, q, k) ==
    LET n == Len(xb)
    IN  {[j \in 1..k |->
            IF j <= n
            THEN [label |-> p[j] - 1, distance |-> L2sqr(xb[p[j]].v, q)]
            ELSE [label |-> -1, distance |-> FLT_MAX]] :
         p \in Nearest(xb, q, 1..n)}

\* (a variant of Similarity that forgets the reciprocal)
SimilarityNoReciprocal(distance) == [num |-> 1 + distance, den |-> 1]

\* scores = 1 / (1 + distances), kept as an exact fraction
Similarity(distance) == [num |-> 1, den |-> 1 + distance]

\* a >= b for two scores kept as fractions
ScoreGeq(a, b) == a.num * b.den >= b.num * a.den

\* a[i] for a 0-based python index, negative ones counting from the end
InBounds(a, i) == -Len(a) <= i /\ i < Len(a)
At(a, i) == IF i < 0 THEN a[Len(a) + i + 1] ELSE a[i + 1]

\* (a variant of FilterIndices that keeps every position)
FilterIndicesAll(route_filter) == [i \in 1..Len(routes.val) |-> i - 1]

\* [i for i, route in enumerate(self.routes) if route in route_filter]
FilterIndices(route_filter) ==
    LET pos == Where(routes.val, route_filter)
    IN  [i \in 1..Len(pos) |-> pos[i] - 1]

Query(vector, top_k, route_filter) ==
    LET call(outcome, error, found, idx) ==
            [op |-> "query", outcome |-> outcome, error |-> error, vector |-> vector,
             top_k |-> top_k, route_filter |-> route_filter,
             scores |-> [j \in 1..Len(found) |-> Similarity(found[j].distance)],
             labels |-> [j \in 1..Len(found) |-> found[j].label],
             idx |-> idx,
             route_names |-> IF outcome = "ok"
                             THEN [j \in 1..Len(idx) |-> At(routes.val, idx[j]).v]
                             ELSE <<>>]
    IN  /\ UNCHANGED <<index, routes, utterances, metadata, dimension>>
        /\ IF IsNone(index) \/ IsNone(routes)
           THEN ret' = call("ValueError", "Index or routes are not populated.",
                            <<>>, <<>>)
           ELSE IF ~IsNone(route_filter)
           THEN LET filter_indices == FilterIndices(route_filter.val)
                IN  IF Len(filter_indices) = 0
                    THEN ret' = call("ValueError",
                                     "No routes found matching the filter criteria.",
                                     <<>>, <<>>)
                    ELSE IF \E j \in 1..Len(filter_indices) :
                               ~InBounds(index.val, filter_indices[j])
                    THEN ret' = call("IndexError", "index out of bounds", <<>>, <<>>)
                    ELSE LET sub_embeds ==
                                 [j \in 1..Len(filter_indices) |->
                                     At(index.val, filter_indices[j])]
                         IN  \E found \in Search(sub_embeds, vector, top_k) :
                                LET original_idx ==
                                        [j \in 1..top_k |->
                                            At(filter_indices, found[j].label)]
                                IN  ret' = call("ok", "", found, original_idx)
           ELSE \E found \in Search(index.val, vector, top_k) :
                   LET idx == [j \in 1..top_k |-> found[j].label]
                   IN  IF \E j \in 1..top_k : ~InBounds(routes.val, idx[j])
                       THEN ret' = call("IndexError", "index out of bounds", <<>>, <<>>)
                       ELSE ret' = call("ok", "", found, idx)

-----------------------------------------------------------------------------
(* describe, is_ready, get_vector_by_utterance, get_utterance_by_vector *)

\* self.dimension or 0
DescribeDimensions ==
    IF IsNone(dimension) \/ dimension.val = 0 THEN 0 ELSE dimension.val

\* (a variant of Describe that stores the dimension it reports)
DescribeStoresDimension ==
    /\ ret' = [op |-> "describe", outcome |-> "ok", type |-> "faiss",
               dimensions |-> DescribeDimensions, vectors |-> ntotal]
    /\ dimension' = Some(DescribeDimensions)
    /\ UNCHANGED <<index, routes, utterances, metadata>>

Describe ==
    /\ ret' = [op |-> "describe", outcome |-> "ok", type |-> "faiss",
               dimensions |-> DescribeDimensions, vectors |-> ntotal]
    /\ UNCHANGED <<index, routes, utterances, metadata, dimension>>

\* get_utterances: [] while routes or utterances is None; else one Utterance
\* per position of zip(routes, utterances), with the metadata of the position
\* when include_metadata is set and metadata is stored
GetUtterances(include_metadata) ==
    LET with_metadata == include_metadata /\ ~IsNone(metadata)
        \* zip stops at the end of the shortest array
        lens == {Len(routes.val), Len(utterances.val)}
                \cup (IF with_metadata THEN {Len(metadata.val)} ELSE {})
        n == CHOOSE k \in lens : \A l \in lens : k <= l
    IN  /\ ret' = [op |-> "get_utterances", outcome |-> "ok",
                   include_metadata |-> include_metadata,
                   value |-> IF IsNone(routes) \/ IsNone(utterances) THEN <<>>
                             ELSE [i \in 1..n |->
                                     [route |-> routes.val[i].v,
                                      utterance |-> utterances.val[i].v,
                                      metadata |-> IF with_metadata
                                                   THEN Some(metadata.val[i].v)
                                                   ELSE None]]]
        /\ UNCHANGED <<index, routes, utterances, metadata, dimension>>

\* (a variant of Ready that asks for a stored vector)
ReadyWhenNotEmpty == ntotal > 0

\* self.index is not None and self.routes is not None
Ready == ~IsNone(index) /\ ~IsNone(routes)

IsReady ==
    /\ ret' = [op |-> "is_ready", outcome |-> "ok", value |-> Ready]
    /\ UNCHANGED <<index, routes, utterances, metadata, dimension>>

\* np.where(self.utterances == utterance)[0]: the matching positions, 0-based
UtteranceIndices(utterance) ==
    LET pos == Where(utterances.val, {utterance})
    IN  [i \in 1..Len(pos) |-> pos[i] - 1]

\* the answer carries the stored vector with its tag, or None
GetVectorByUtterance(utterance) ==
    LET call(outcome, vector) ==
            [op |-> "get_vector_by_utterance", outcome |-> outcome,
             utterance |-> utterance, vector |-> vector]
    IN  /\ UNCHANGED <<index, routes, utterances, metadata, dimension>>
        /\ IF IsNone(index) \/ IsNone(utterances)
           THEN ret' = call("ok", None)
           ELSE LET indices == UtteranceIndices(utterance)
                IN  IF Len(indices) = 0
                    THEN ret' = call("ok", None)
                    ELSE IF indices[1] >= ntotal
                    THEN \* index.reconstruct of a key the index does not hold
                         ret' = call("RuntimeError", None)
                    ELSE ret' = call("ok", Some(At(index.val, indices[1])))

\* the answer is the list of (utterance, score) pairs, the utterances with
\* their tags; idx are the labels the search reported
GetUtteranceByVector(vector, top_k) ==
    LET call(outcome, found, idx) ==
            [op |-> "get_utterance_by_vector", outcome |-> outcome,
             vector |-> vector, top_k |-> top_k, idx |-> idx,
             pairs |-> IF outcome = "ok"
                       THEN [j \in 1..Len(idx) |->
                                [utterance |-> At(utterances.val, idx[j]),
                                 score |-> Similarity(found[j].distance)]]
                       ELSE <<>>]
    IN  /\ UNCHANGED <<index, routes, utterances, metadata, dimension>>
        /\ IF IsNone(index) \/ IsNone(utterances)
           THEN ret' = call("ok", <<>>, <<>>)
           ELSE \E found \in Search(index.val, vector, top_k) :
                   LET idx == [j \in 1..top_k |-> found[j].label]
                   IN  IF \E j \in 1..top_k : ~InBounds(utterances.val, idx[j])
                       THEN ret' = call("IndexError", <<>>, <<>>)
                       ELSE ret' = call("ok", found, idx)

-----------------------------------------------------------------------------
(* SiliconFlowEncoder: __call__ and acall.  The two run the same statements,  *)
(* acall awaiting the request and the sleeps; `variant` says which one runs.  *)

\* largest number of texts of one call (three batches)
MaxDocs == 61
\* largest max_retries of an instance
MaxRetries == 3

batch_size == 30

ModelNames == {"BAAI/bge-large-zh-v1.5", "custom-embedding-model"}
\* name in siliconflow_model_configs
KnownModel(n) == n = "BAAI/bge-large-zh-v1.5"
\* self.token_limit: the configured limit of a known model, else the default
token_limit == IF KnownModel(model_name) THEN 512 ELSE 8192
\* hasattr(self, '_token_encoder'): __init__ sets it for unknown names only
HasTokenEncoder == ~KnownModel(model_name)

\* A text is known by its identity and its number of tokens; text k of a call
\* takes its length from this list, in turn.
TokenCounts == <<10, 600, 8192, 8193>>
Text(k) == [id |-> k, tokens |-> TokenCounts[(k % Len(TokenCounts)) + 1]]
TextLists == {[k \in 1..n |-> Text(n + 1 - k)] : n \in 0..MaxDocs}

\* _truncate: tokens[: token_limit - 1] decoded, when the text is over the limit
Truncate(text) ==
    IF ~HasTokenEncoder THEN text
    ELSE IF text.tokens > token_limit
    THEN [text EXCEPT !.tokens = token_limit - 1]
    ELSE text

\* the vector the provider computes for a text
Embedding(text) == <<text.id, text.tokens>>

\* what one embeddings.create request can end in: a response with one vector
\* per text, a response with an empty data list, an OpenAIError (a rate limit
\* or time-out, which is transient, or an authentication failure, which is
\* not), or an exception of another class
Outcomes == {"ok", "empty", "RateLimitError", "AuthenticationError", "TypeError"}
\* (a variant of IsOpenAIError that takes every exception for an OpenAIError)
IsOpenAIErrorAny(outcome) == outcome \notin {"ok", "empty"}

\* except OpenAIError
IsOpenAIError(outcome) == outcome \in {"RateLimitError", "AuthenticationError"}

Min(a, b) == IF a <= b THEN a ELSE b

\* (a variant of Batch whose batches after the first start one text early)
BatchOverlapping(d, start) ==
    SubSeq(d, IF start = 0 THEN 1 ELSE start, Min(start + batch_size, Len(d)))

\* (a variant of Batch whose slice is one too long)
BatchOneTooLong(d, start) == SubSeq(d, start + 1, Min(start + batch_size + 1, Len(d)))

\* docs[i:i+batch_size]
Batch(d, start) == SubSeq(d, start + 1, Min(start + batch_size, Len(d)))

\* (a variant of CanRetry that retries when max_retries is 0 too)
CanRetryAlways(attempt) == attempt < max_retries + 1

\* self.max_retries != 0 and j < self.max_retries
CanRetry(attempt) == max_retries # 0 /\ attempt < max_retries

\* (a variant of Backoff that grows linearly)
BackoffLinear(attempt) == 2 * attempt

\* sleep(2**j)
Backoff(attempt) == 2 ^ attempt

\* (a variant of NoEmbeddings that accepts an empty answer)
NoEmbeddingsNever(e) == FALSE

\* (a variant of NoEmbeddings that only looks for a missing response)
NoEmbeddingsOnlyNone(e) == IsNone(e)

\* not embeds or not isinstance(embeds, CreateEmbeddingResponse) or not embeds.data
NoEmbeddings(e) == IF IsNone(e) THEN TRUE ELSE e.val = <<>>

EncoderInit ==
    \* the index is as constructed
    /\ index = None
    /\ routes = None
    /\ utterances = None
    /\ metadata = None
    /\ dimension = None
    /\ ret = [op |-> "init", outcome |-> "ok"]
    /\ deleted = {}
    /\ adds = [ever |-> FALSE, since_reset |-> FALSE]
    /\ inflight = <<>>
    /\ model_name \in ModelNames
    /\ max_retries \in 0..MaxRetries
    /\ variant \in {"__call__", "acall"}
    /\ truncate \in BOOLEAN
    /\ texts \in TextLists
    /\ docs = texts
    /\ pc = "called"
    /\ loop_i = 0
    /\ loop_j = 0
    /\ embeds = None
    /\ all_embeddings = <<>>
    /\ result = [status |-> "pending", error |-> "", value |-> <<>>]
    /\ last_outcome = ""
    /\ calls = 0
    /\ batch_calls = 0
    /\ requested = {}
    /\ backoffs = <<>>
    /\ delays = 0
    /\ tasks = <<>>
    /\ cls = <<>>
    /\ trainer = <<>>
    /\ predictor = <<>>
    /\ files = <<>>

\* an exception leaves the call
Raise(error) ==
    /\ pc' = "failed"
    /\ result' = [status |-> "error", error |-> error, value |-> <<>>]
    /\ UNCHANGED <<loop_i, loop_j, all_embeddings, delays>>

\* (a variant of AfterRetries that also sleeps after the last batch)
AfterRetriesSleepAfterLast(e) ==
    IF NoEmbeddings(e)
    THEN Raise("ValueError")
    ELSE /\ all_embeddings' = all_embeddings \o e.val
         /\ delays' = delays + 1
         /\ IF loop_i + batch_size < Len(docs)
            THEN /\ loop_i' = loop_i + batch_size
                 /\ loop_j' = 0
                 /\ pc' = "request"
                 /\ UNCHANGED result
            ELSE /\ pc' = "done"
                 /\ result' = [status |-> "ok", error |-> "",
                               value |-> all_embeddings \o e.val]
                 /\ UNCHANGED <<loop_i, loop_j>>

\* the statements after the retry loop, with the answer e the loop ended on
AfterRetries(e) ==
    IF NoEmbeddings(e)
    THEN Raise("ValueError")
    ELSE /\ all_embeddings' = all_embeddings \o e.val
         /\ IF loop_i + batch_size < Len(docs)
            THEN \* sleep(0.5), then the next batch
                 /\ delays' = delays + 1
                 /\ loop_i' = loop_i + batch_size
                 /\ loop_j' = 0
                 /\ pc' = "request"
                 /\ UNCHANGED result
            ELSE /\ pc' = "done"
                 /\ result' = [status |-> "ok", error |-> "",
                               value |-> all_embeddings \o e.val]
                 /\ UNCHANGED <<loop_i, loop_j, delays>>

\* the call up to its first request: truncation, and the loop over no batch
Start ==
    /\ pc = "called"
    /\ docs' = IF truncate THEN [k \in 1..Len(docs) |-> Truncate(docs[k])] ELSE docs
    /\ all_embeddings' = <<>>
    /\ IF Len(docs) = 0
       THEN /\ pc' = "done"
            /\ result' = [status |-> "ok", error |-> "", value |-> <<>>]
       ELSE /\ pc' = "request"
            /\ UNCHANGED result
    /\ UNCHANGED <<model_name, max_retries, variant, texts, truncate, loop_i, loop_j,
                   embeds, last_outcome, calls, batch_calls, requested,
                   backoffs, delays>>

\* one pass of the retry loop: the request for the batch at loop_i, attempt
\* loop_j, and what follows it up to the next request or the end of the call
Attempt(outcome) ==
    /\ pc = "request"
    /\ last_outcome' = outcome
    /\ calls' = calls + 1
    /\ batch_calls' = IF loop_j = 0 THEN 1 ELSE batch_calls + 1
    /\ requested' = requested \cup {loop_i}
    /\ UNCHANGED <<model_name, max_retries, variant, texts, truncate, docs>>
    /\ IF outcome \in {"ok", "empty"}
       THEN LET answer == IF outcome = "ok"
                          THEN [k \in 1..Len(Batch(docs, loop_i)) |->
                                   Embedding(Batch(docs, loop_i)[k])]
                          ELSE <<>>
            IN  /\ embeds' = Some(answer)
                /\ backoffs' = IF loop_j = 0 THEN <<>> ELSE backoffs
                /\ IF answer = <<>> /\ loop_j < max_retries
                   THEN \* no break: the loop goes on
                        /\ loop_j' = loop_j + 1
                        /\ UNCHANGED <<pc, loop_i, all_embeddings, result, delays>>
                   ELSE AfterRetries(Some(answer))
       ELSE IF IsOpenAIError(outcome)
       THEN IF CanRetry(loop_j)
            THEN /\ backoffs' = (IF loop_j = 0 THEN <<>> ELSE backoffs)
                                \o <<[attempt |-> loop_j, seconds |-> Backoff(loop_j)]>>
                 /\ loop_j' = loop_j + 1
                 /\ UNCHANGED <<pc, loop_i, embeds, all_embeddings, result, delays>>
            ELSE /\ backoffs' = IF loop_j = 0 THEN <<>> ELSE backoffs
                 /\ UNCHANGED embeds
                 /\ Raise(outcome)
       ELSE /\ backoffs' = IF loop_j = 0 THEN <<>> ELSE backoffs
            /\ UNCHANGED embeds
            /\ Raise("ValueError")

DoStart ==
    /\ Start
    /\ UNCHANGED <<idxVars, tasks, cls, appVars>>

DoAttempt ==
    /\ \E outcome \in Outcomes : Attempt(outcome)
    /\ UNCHANGED <<idxVars, tasks, cls, appVars>>

EncoderNext ==
    \/ DoStart
    \/ DoAttempt

EncoderSpec == EncoderInit /\ [][EncoderNext]_vars

-----------------------------------------------------------------------------
(* acall invocations running concurrently on one instance.  An invocation    *)
(* runs until it awaits (embeddings.create, asleep(2**j), asleep(0.5)); the  *)
(* event loop then resumes any invocation whose await has completed.         *)

TaskIds == {1, 2}
\* the numbers of texts of a concurrent invocation (one batch, two batches)
TaskLens == {1, batch_size + 1}
\* the texts of invocation t: no text belongs to two invocations
TaskTexts(t, n) == [k \in 1..n |-> Text(100 * t + k)]

\* an exception leaves the invocation
TaskRaise(S, error) ==
    [S EXCEPT !.pc = "failed",
              !.result = [status |-> "error", error |-> error, value |-> <<>>]]

\* await self._async_client.embeddings.create(input=batch, ...) for the batch
\* at i, attempt j
TaskRequest(S, i, j) ==
    [S EXCEPT !.pc = "create",
              !.loop_i = i,
              !.loop_j = j,
              !.batch = Batch(S.docs, i),
              !.embeds = IF j = 0 THEN None ELSE @,
              !.batch_calls = IF j = 0 THEN 1 ELSE @ + 1,
              !.backoffs = IF j = 0 THEN <<>> ELSE @]

\* the statements after the retry loop, up to the next await or the return
TaskAfterRetries(S) ==
    IF NoEmbeddings(S.embeds)
    THEN TaskRaise(S, "ValueError")
    ELSE LET extended == S.all_embeddings \o S.embeds.val
         IN  IF S.loop_i + batch_size < Len(S.docs)
             THEN \* await asleep(0.5)
                  [S EXCEPT !.all_embeddings = extended, !.pc = "pause"]
             ELSE [S EXCEPT !.all_embeddings = extended,
                            !.pc = "done",
                            !.result = [status |-> "ok", error |-> "",
                                        value |-> extended]]

\* acall from its entry to its first await
TaskStart(t) ==
    /\ tasks[t].pc = "called"
    /\ LET S == tasks[t]
           truncated == IF S.truncate
                        THEN [k \in 1..Len(S.docs) |-> Truncate(S.docs[k])]
                        ELSE S.docs
           T == [S EXCEPT !.docs = truncated, !.all_embeddings = <<>>]
       IN  tasks' = [tasks EXCEPT ![t] =
                        IF Len(truncated) = 0
                        THEN [T EXCEPT !.pc = "done",
                                       !.result = [status |-> "ok", error |-> "",
                                                   value |-> <<>>]]
                        ELSE TaskRequest(T, 0, 0)]

\* the awaited request of invocation t completes with the given outcome, and
\* the invocation runs to its next await
TaskResume(t, outcome) ==
    /\ tasks[t].pc = "create"
    /\ LET S == tasks[t]
       IN  tasks' = [tasks EXCEPT ![t] =
              IF outcome \in {"ok", "empty"}
              THEN LET answer == IF outcome = "ok"
                                 THEN [k \in 1..Len(S.batch) |-> Embedding(S.batch[k])]
                                 ELSE <<>>
                       T == [S EXCEPT !.embeds = Some(answer)]
                   IN  IF answer = <<>> /\ S.loop_j < max_retries
                       THEN TaskRequest(T, S.loop_i, S.loop_j + 1)
                       ELSE TaskAfterRetries(T)
              ELSE IF IsOpenAIError(outcome)
              THEN IF CanRetry(S.loop_j)
                   THEN \* await asleep(2**j)
                        [S EXCEPT !.pc = "backoff",
                                  !.backoffs = Append(@, [attempt |-> S.loop_j,
                                                          seconds |-> Backoff(S.loop_j)])]
                   ELSE TaskRaise(S, outcome)
              ELSE TaskRaise(S, "ValueError")]

\* the awaited sleep of invocation t is over, and the invocation runs to its
\* next await
TaskWake(t) ==
    /\ tasks[t].pc \in {"backoff", "pause"}
    /\ LET S == tasks[t]
       IN  tasks' = [tasks EXCEPT ![t] =
              IF S.pc = "pause"
              THEN TaskRequest(S, S.loop_i + batch_size, 0)
              ELSE IF S.loop_j + 1 <= max_retries
              THEN TaskRequest(S, S.loop_i, S.loop_j + 1)
              ELSE TaskAfterRetries(S)]

DoTaskStart ==
    /\ \E t \in TaskIds : TaskStart(t)
    /\ UNCHANGED <<idxVars, callVars, cls, appVars>>

DoTaskResume ==
    /\ \E t \in TaskIds, outcome \in Outcomes : TaskResume(t, outcome)
    /\ UNCHANGED <<idxVars, callVars, cls, appVars>>

DoTaskWake ==
    /\ \E t \in TaskIds : TaskWake(t)
    /\ UNCHANGED <<idxVars, callVars, cls, appVars>>

ConcurrentNext ==
    \/ DoTaskStart
    \/ DoTaskResume
    \/ DoTaskWake

ConcurrentInit ==
    \* the index is as constructed
    /\ index = None
    /\ routes = None
    /\ utterances = None
    /\ metadata = None
    /\ dimension = None
    /\ ret = [op |-> "init", outcome |-> "ok"]
    /\ deleted = {}
    /\ adds = [ever |-> FALSE, since_reset |-> FALSE]
    /\ inflight = <<>>
    \* the instance
    /\ model_name \in ModelNames
    /\ max_retries \in 0..MaxRetries
    \* no __call__ is under way
    /\ variant = "acall"
    /\ truncate = TRUE
    /\ texts = <<>>
    /\ docs = <<>>
    /\ pc = "idle"
    /\ loop_i = 0
    /\ loop_j = 0
    /\ embeds = None
    /\ all_embeddings = <<>>
    /\ result = [status |-> "pending", error |-> "", value |-> <<>>]
    /\ last_outcome = ""
    /\ calls = 0
    /\ batch_calls = 0
    /\ requested = {}
    /\ backoffs = <<>>
    /\ delays = 0
    \* the invocations, each with its own texts
    /\ \E n \in [TaskIds -> TaskLens] :
          tasks = [t \in TaskIds |->
                      [texts |-> TaskTexts(t, n[t]),
                       docs |-> TaskTexts(t, n[t]),
                       truncate |-> TRUE,
                       pc |-> "called",
                       loop_i |-> 0,
                       loop_j |-> 0,
                       batch |-> <<>>,
                       embeds |-> None,
                       all_embeddings |-> <<>>,
                       result |-> [status |-> "pending", error |-> "", value |-> <<>>],
                       batch_calls |-> 0,
                       backoffs |-> <<>>]]
    /\ cls = <<>>
    /\ trainer = <<>>
    /\ predictor = <<>>
    /\ files = <<>>

ConcurrentSpec == ConcurrentInit /\ [][ConcurrentNext]_vars

-----------------------------------------------------------------------------
(* The index driven by any sequence of calls. *)

\* the argument lists of one add call: records of one dimension, which all
\* come with metadata (metadata_list is given) or all without (it is left out)
AddArgs ==
    {recs \in UNION {[1..n -> RecordPool] : n \in AddLens} :
        \A i \in 1..Len(recs) :
            /\ Len(recs[i].embedding) = Len(recs[1].embedding)
            /\ (recs[i].meta = NoMeta) = (recs[1].meta = NoMeta)}

DoAdd ==
    /\ \E recs \in AddArgs :
        /\ IF ~IsNone(index) /\ Len(recs[1].embedding) # dimension.val
           THEN TRUE
           ELSE ntotal + Len(recs) <= MaxRecords
        /\ Add([k \in 1..Len(recs) |-> recs[k].embedding],
               [k \in 1..Len(recs) |-> recs[k].route],
               [k \in 1..Len(recs) |-> recs[k].utterance],
               IF recs[1].meta = NoMeta
               THEN <<>>
               ELSE [k \in 1..Len(recs) |-> recs[k].meta])
    /\ deleted' = IF ret'.outcome = "ok" THEN deleted \ Range(ret'.routes) ELSE deleted
    /\ adds' = IF ret'.outcome = "ok"
               THEN [ever |-> TRUE, since_reset |-> TRUE]
               ELSE adds
    /\ UNCHANGED <<inflight, encVars>>

DoDelete ==
    /\ \E route_name \in RouteNames : Delete(route_name)
    /\ deleted' = IF ret'.outcome = "ok" THEN deleted \cup {ret'.route_name} ELSE deleted
    /\ UNCHANGED <<adds, inflight, encVars>>

DoRemoveAndSync ==
    /\ \E routes_to_delete \in RemovePool : RemoveAndSync(routes_to_delete)
    /\ UNCHANGED <<deleted, adds, inflight, encVars>>

DoDeleteIndex ==
    /\ DeleteIndex
    /\ adds' = [adds EXCEPT !.since_reset = FALSE]
    /\ UNCHANGED <<deleted, inflight, encVars>>

DoQuery ==
    /\ \E vector \in QueryPool, top_k \in TopKs,
          route_filter \in {None} \cup {Some(f) : f \in RouteFilters} :
        /\ IF IsNone(dimension) THEN TRUE ELSE Len(vector) = dimension.val
        /\ Query(vector, top_k, route_filter)
    /\ UNCHANGED <<deleted, adds, inflight, encVars>>

IndexNext ==
    \/ DoAdd
    \/ DoDelete
    \/ DoRemoveAndSync
    \/ DoDeleteIndex
    \/ DoQuery

IndexSpec == IndexInit /\ [][IndexNext]_vars

\* the utterances get_vector_by_utterance is asked for: the stored ones and
\* one that is never stored
LookupTexts == UtteranceTexts \cup {"u3"}

DoDescribe ==
    /\ Describe
    /\ UNCHANGED <<deleted, adds, inflight, encVars>>

DoIsReady ==
    /\ IsReady
    /\ UNCHANGED <<deleted, adds, inflight, encVars>>

DoGetVectorByUtterance ==
    /\ \E utterance \in LookupTexts : GetVectorByUtterance(utterance)
    /\ UNCHANGED <<deleted, adds, inflight, encVars>>

DoGetUtteranceByVector ==
    /\ \E vector \in QueryPool, top_k \in TopKs :
        /\ IF IsNone(dimension) THEN TRUE ELSE Len(vector) = dimension.val
        /\ GetUtteranceByVector(vector, top_k)
    /\ UNCHANGED <<deleted, adds, inflight, encVars>>

\* the index under add, the removals and the read-only calls
LookupNext ==
    \/ DoAdd
    \/ DoDelete
    \/ DoRemoveAndSync
    \/ DoDeleteIndex
    \/ DoDescribe
    \/ DoIsReady
    \/ DoGetVectorByUtterance
    \/ DoGetUtteranceByVector

LookupSpec == IndexInit /\ [][LookupNext]_vars

DoGetUtterances ==
    /\ \E include_metadata \in BOOLEAN : GetUtterances(include_metadata)
    /\ UNCHANGED <<deleted, adds, inflight, encVars>>

\* the index under add, the removals and every read-only call
ReadNext ==
    \/ DoAdd
    \/ DoDelete
    \/ DoRemoveAndSync
    \/ DoDeleteIndex
    \/ DoQuery
    \/ DoGetUtterances
    \/ DoDescribe
    \/ DoIsReady
    \/ DoGetVectorByUtterance
    \/ DoGetUtteranceByVector

ReadSpec == IndexInit /\ [][ReadNext]_vars

-----------------------------------------------------------------------------
(* The threshold classifier.  Scores and thresholds are in hundredths.        *)

\* largest number of hits a classified query gets
MaxHits == 3

\* the routes, in the order they were inserted
ClsRoutes == <<"greeting", "farewell">>
\* the scores a hit can carry and the thresholds a route can be given
HitScores == {45, 55, 60, 85}
RouteThresholds == {None, Some(50), Some(80)}
DefaultThreshold == 70
Aggregations == {"max", "mean"}

\* the hit lists a query returns: at most MaxHits (score, route) pairs, by
\* non-increasing score
HitLists ==
    UNION {{h \in [1..n -> [score : HitScores, route : Range(ClsRoutes)]] :
                \A i \in 1..n : i > 1 => h[i - 1].score >= h[i].score} :
           n \in 0..MaxHits}

\* the hits of route r
HitsOf(hits, r) == SelectSeq(hits, LAMBDA h : h.route = r)

RECURSIVE SumScores(_)
SumScores(hits) ==
    IF hits = <<>> THEN 0 ELSE Head(hits).score + SumScores(Tail(hits))

\* the aggregate score of route r as a fraction: the maximum of its hits'
\* scores or, when so configured, their mean
Aggregate(hits, r, aggregation) ==
    LET own == HitsOf(hits, r)
    IN  IF aggregation = "mean"
        THEN [num |-> SumScores(own), den |-> Len(own)]
        ELSE [num |-> CHOOSE x \in {own[i].score : i \in 1..Len(own)} :
                          \A i \in 1..Len(own) : own[i].score <= x,
              den |-> 1]

\* (a variant of ThresholdOf that knows the router-wide threshold only)
ThresholdGlobalOnly(thresholds, default, r) == default

\* the route's own score_threshold, or the router-wide one if it has none
ThresholdOf(thresholds, default, r) ==
    IF IsNone(thresholds[r]) THEN default ELSE thresholds[r].val

\* (a variant of InsertedAt that counts from the last inserted route)
InsertedAtFromLast(r) ==
    CHOOSE i \in 1..Len(ClsRoutes) : ClsRoutes[Len(ClsRoutes) + 1 - i] = r

\* position of route r in the insertion order
InsertedAt(r) == CHOOSE i \in 1..Len(ClsRoutes) : ClsRoutes[i] = r

\* the route with the highest aggregate score, the first inserted among equals
TopRoute(hits, thresholds, default, aggregation) ==
    LET cand == {hits[i].route : i \in 1..Len(hits)}
        top == {r \in cand : \A q \in cand :
                   ScoreGeq(Aggregate(hits, r, aggregation),
                            Aggregate(hits, q, aggregation))}
    IN  IF top = {} THEN "none"
        ELSE CHOOSE r \in top : \A q \in top : InsertedAt(r) <= InsertedAt(q)

\* classify: the top route if its aggregate reaches its threshold, else no match
Classify(hits, thresholds, default, aggregation) ==
    LET r == TopRoute(hits, thresholds, default, aggregation)
    IN  IF r = "none" THEN "none"
        ELSE IF Aggregate(hits, r, aggregation).num >=
                    ThresholdOf(thresholds, default, r) * Aggregate(hits, r, aggregation).den
        THEN r
        ELSE "none"

\* one query is classified in a behaviour: classify changes nothing that a
\* later classify reads
DoClassify ==
    /\ ~cls.classified
    /\ \E hits \in HitLists :
          cls' = [cls EXCEPT !.hits = hits,
                             !.classified = TRUE,
                             !.choice = Classify(hits, cls.thresholds, cls.default,
                                                 cls.aggregation)]
    /\ UNCHANGED <<idxVars, callVars, tasks, appVars>>

\* the same query is classified once more: same hits, same thresholds
DoClassifyAgain ==
    /\ cls.classified
    /\ cls.again = "unset"
    /\ cls' = [cls EXCEPT !.again = Classify(cls.hits, cls.thresholds, cls.default,
                                             cls.aggregation)]
    /\ UNCHANGED <<idxVars, callVars, tasks, appVars>>

ClassifierNext ==
    \/ DoClassify
    \/ DoClassifyAgain

ClassifierInit ==
    \* the index is as constructed
    /\ index = None
    /\ routes = None
    /\ utterances = None
    /\ metadata = None
    /\ dimension = None
    /\ ret = [op |-> "init", outcome |-> "ok"]
    /\ deleted = {}
    /\ adds = [ever |-> FALSE, since_reset |-> FALSE]
    /\ inflight = <<>>
    \* no encoder call is under way
    /\ model_name = "BAAI/bge-large-zh-v1.5"
    /\ max_retries = 0
    /\ variant = "__call__"
    /\ truncate = TRUE
    /\ texts = <<>>
    /\ docs = <<>>
    /\ pc = "idle"
    /\ loop_i = 0
    /\ loop_j = 0
    /\ embeds = None
    /\ all_embeddings = <<>>
    /\ result = [status |-> "pending", error |-> "", value |-> <<>>]
    /\ last_outcome = ""
    /\ calls = 0
    /\ batch_calls = 0
    /\ requested = {}
    /\ backoffs = <<>>
    /\ delays = 0
    /\ tasks = <<>>
    /\ trainer = <<>>
    /\ predictor = <<>>
    /\ files = <<>>
    \* the router as built
    /\ \E thresholds \in [Range(ClsRoutes) -> RouteThresholds],
          aggregation \in Aggregations :
          cls = [thresholds |-> thresholds,
                 default |-> DefaultThreshold,
                 aggregation |-> aggregation,
                 hits |-> <<>>,
                 classified |-> FALSE,
                 choice |-> "none",
                 again |-> "unset"]

ClassifierSpec == ClassifierInit /\ [][ClassifierNext]_vars

-----------------------------------------------------------------------------
(* IntentRouterTrainer: evaluate_router, _evaluate_router_with_temp and      *)
(* optimize_thresholds.  Scores are in hundredths; thresholds are in units   *)
(* of 1/Scale of a hundredth, in which every point of the search grid is a   *)
(* whole number.                                                             *)

\* largest number of queries of an evaluation set
MaxTest == 2

\* the number of points of np.linspace(min_score * 0.8, max_score * 1.2, 20)
GridPoints == 20
Scale == 10 * (GridPoints - 1)

\* a query of an evaluation set: the intent it is labelled with, the route of
\* highest aggregate score the trained router finds for it and that score,
\* the same for a router in which the other route's utterances are replaced,
\* and whether classifying it raises
Item(expected, top, score, xtop, xscore, fails) ==
    [expected |-> expected, top |-> top, score |-> score,
     xtop |-> xtop, xscore |-> xscore, fails |-> fails]
\* the pool: queries matched to the route they are labelled with, at a low
\* and at a high score; two matched to the other route; one that the
\* replacement of the other route's utterances draws to that route; and one
\* that raises
ItemPool ==
    {Item(e, e, sc, e, sc, FALSE) : e \in Range(ClsRoutes), sc \in {40, 90}}
    \cup {Item("greeting", "farewell", 90, "farewell", 90, FALSE),
          Item("farewell", "greeting", 40, "greeting", 40, FALSE),
          Item("greeting", "greeting", 40, "farewell", 90, FALSE),
          Item("greeting", "greeting", 90, "greeting", 90, TRUE)}
TestSets == UNION {[1..n -> ItemPool] : n \in 0..MaxTest}

\* self.training_data: the utterances of each intent, each of which the
\* trained router matches to its own route with score 1
Utterance(intent) == Item(intent, intent, 100, intent, 100, FALSE)
training_data ==
    [greeting |-> <<Utterance("greeting"), Utterance("greeting"), Utterance("greeting")>>,
     farewell |-> <<Utterance("farewell")>>]

\* the thresholds a trained router carries and those a successful fit leaves
TrainedThresholds == [Range(ClsRoutes) -> {30 * Scale, 70 * Scale}]
FitThresholds == {[r \in Range(ClsRoutes) |-> 50 * Scale]}

\* a router: its routes' thresholds, and the route whose utterances have been
\* replaced by the queries labelled with it ("none" for the trained router)
RouterOf(thresholds) == [thresholds |-> thresholds, temp |-> "none"]
TempRouterOf(thresholds, route_name, threshold) ==
    [thresholds |-> [thresholds EXCEPT ![route_name] = threshold],
     temp |-> route_name]

\* router(query): the top route if its score reaches its threshold, else None
RouterCall(router, q) ==
    LET v == IF router.temp = "none" THEN [top |-> q.top, score |-> q.score]
             ELSE IF q.expected = router.temp
             THEN [top |-> router.temp, score |-> 100]
             ELSE [top |-> q.xtop, score |-> q.xscore]
    IN  IF v.score * Scale >= router.thresholds[v.top]
        THEN Some([name |-> v.top, score |-> v.score])
        ELSE None

Zero == [num |-> 0, den |-> 1]

\* the loop of evaluate_router and of _evaluate_router_with_temp: a query
\* that raises is caught and not counted
CountCorrect(router, queries) ==
    LET F[i \in 0..Len(queries)] ==
            IF i = 0 THEN 0
            ELSE IF queries[i].fails THEN F[i - 1]
            ELSE LET route == RouterCall(router, queries[i])
                 IN  IF ~IsNone(route) /\ route.val.name = queries[i].expected
                     THEN F[i - 1] + 1
                     ELSE F[i - 1]
    IN  F[Len(queries)]

\* correct / len(test_queries) * 100 if test_queries else 0, as a fraction
AccuracyOf(correct, queries) ==
    IF queries # <<>> THEN [num |-> correct * 100, den |-> Len(queries)] ELSE Zero

\* the queries evaluate_router takes when it is given none: the first two
\* utterances of every intent of the training data
DefaultQueries ==
    LET first(intent) ==
            SubSeq(training_data[intent], 1, Min(2, Len(training_data[intent])))
    IN  first("greeting") \o first("farewell")

\* evaluate_router: the queries it evaluated and the accuracy it returns
EvaluateRouter(router, test_queries) ==
    LET queries == IF test_queries = <<>> THEN DefaultQueries ELSE test_queries
    IN  [evaluated |-> queries,
         accuracy |-> AccuracyOf(CountCorrect(router, queries), queries)]

EvaluateRouterWithTemp(temp_router, test_data) ==
    AccuracyOf(CountCorrect(temp_router, test_data), test_data)

\* prepare_test_data: the test part of a split of the training data
PreparedTestData ==
    {<<training_data[intent][i]>> :
        intent \in {"greeting"}, i \in 1..Len(training_data["greeting"])}
    \cup {<<training_data["farewell"][1]>>}

\* _analyze_route_scores: for every intent that labels a query which does not
\* raise, the scores of the routes returned for its queries (0 for no match)
AnalyzeRouteScores(router, test_data) ==
    LET analysed == SelectSeq(test_data, LAMBDA q : ~q.fails)
        score(q) == IF IsNone(RouterCall(router, q)) THEN 0
                    ELSE RouterCall(router, q).val.score
    IN  [r \in {analysed[i].expected : i \in 1..Len(analysed)} |->
            LET own == SelectSeq(analysed, LAMBDA q : q.expected = r)
            IN  [i \in 1..Len(own) |-> score(own[i])]]

MinOf(scores) == CHOOSE x \in Range(scores) : \A y \in Range(scores) : x <= y
MaxOf(scores) == CHOOSE x \in Range(scores) : \A y \in Range(scores) : x >= y

\* np.linspace(min_score * 0.8, max_score * 1.2, 20)
GridPoint(min_score, max_score, k) ==
    8 * min_score * (GridPoints - 1) + (k - 1) * (12 * max_score - 8 * min_score)
SearchRange(min_score, max_score) ==
    [k \in 1..GridPoints |-> GridPoint(min_score, max_score, k)]

\* (a variant of Better that lets an equal accuracy replace the best one)
BetterOrEqual(accuracy, best_accuracy) ==
    accuracy.num * best_accuracy.den >= best_accuracy.num * accuracy.den

\* accuracy > best_accuracy
Better(accuracy, best_accuracy) ==
    accuracy.num * best_accuracy.den > best_accuracy.num * accuracy.den

\* if accuracy > best_accuracy: best_accuracy, best_threshold = accuracy, threshold
KeepBest(best, threshold, accuracy) ==
    IF Better(accuracy, best.accuracy)
    THEN [threshold |-> threshold, accuracy |-> accuracy]
    ELSE best

\* the candidates of one search whose evaluation raises (the construction of
\* the temporary router calls the encoder): none, the first three, all but
\* the last two, all
CandidateFailures == {{}, 1..3, 1..(GridPoints - 2), 1..GridPoints}

\* _find_best_threshold: (best_threshold, best_accuracy).  failing are the
\* positions in the grid of the candidates whose evaluation raises, which the
\* except branch of the loop skips.
FindBestThreshold(router, route_name, scores, test_data, current_threshold, failing) ==
    IF scores = <<>>
    THEN [threshold |-> current_threshold, accuracy |-> Zero]
    ELSE LET search_range == SearchRange(MinOf(scores), MaxOf(scores))
             accuracy(k) ==
                 EvaluateRouterWithTemp(
                     TempRouterOf(router.thresholds, route_name, search_range[k]),
                     test_data)
             \* one pass of `for threshold in search_range`
             Try(best, k) ==
                 IF k \in failing THEN best
                 ELSE KeepBest(best, search_range[k], accuracy(k))
             \* the passes lo..hi in ascending order, made in two halves
             RECURSIVE Scan(_, _, _)
             Scan(lo, hi, best) ==
                 IF lo = hi THEN Try(best, lo)
                 ELSE LET mid == (lo + hi) \div 2
                      IN  CHOOSE last \in {Scan(mid + 1, hi, half) :
                                              half \in {Scan(lo, mid, best)}} : TRUE
         IN  Scan(1, GridPoints, [threshold |-> current_threshold, accuracy |-> Zero])

\* the keys of route_scores in the order of the dictionary: the intents of the
\* analysed queries in the order of their first appearance
AppendNew(seq, x) == IF x \in Range(seq) THEN seq ELSE Append(seq, x)
RouteOrder(test_data) ==
    LET analysed == SelectSeq(test_data, LAMBDA q : ~q.fails)
        keys[i \in 0..Len(analysed)] ==
            IF i = 0 THEN <<>> ELSE AppendNew(keys[i - 1], analysed[i].expected)
    IN  keys[Len(analysed)]

\* (a variant of LiveAfterSearch that installs the threshold found at once)
LiveAfterSearchInstalls(live, route_name, best_threshold) ==
    [live EXCEPT ![route_name] = best_threshold]

\* the thresholds of self.router after _find_best_threshold has returned: the
\* search builds temporary routers and assigns nothing to self.router
LiveAfterSearch(live, route_name, best_threshold) == live

\* one pass of `for route_name, scores in route_scores.items()`: prev holds the
\* thresholds of self.router, optimized_thresholds so far, and for every
\* search made the thresholds of self.router it was made with
SearchStep(prev, route_name, scores, test_data, current_thresholds, failing) ==
    LET best == FindBestThreshold(RouterOf(prev.live), route_name, scores, test_data,
                                  current_thresholds[route_name], failing)
    IN  [live |-> LiveAfterSearch(prev.live, route_name, best.threshold),
         optimized |-> (route_name :> best.threshold) @@ prev.optimized,
         searched |-> Append(prev.searched,
                             [route_name |-> route_name, thresholds |-> prev.live])]

\* the loop over route_scores of the manual method
ManualSearch(current_thresholds, route_scores, order, test_data, failing) ==
    LET after[i \in 0..Len(order)] ==
            IF i = 0
            THEN [live |-> current_thresholds, optimized |-> <<>>, searched |-> <<>>]
            ELSE SearchStep(after[i - 1], order[i], route_scores[order[i]], test_data,
                            current_thresholds, failing)
    IN  after[Len(order)]

\* (a variant of FallbackMethod that does not fall back)
FallbackMethodNone == "automatic"

\* optimization_method = "manual", after the automatic method has failed
FallbackMethod == "manual"

\* float(optimized_accuracy) - float(initial_accuracy)
Improvement(optimized_accuracy, initial_accuracy) ==
    [num |-> optimized_accuracy.num * initial_accuracy.den
                - initial_accuracy.num * optimized_accuracy.den,
     den |-> optimized_accuracy.den * initial_accuracy.den]

\* optimize_thresholds.  fit is what self.router.fit does (it leaves the
\* thresholds it found, or raises), rebuild what the construction of the
\* router with the optimized thresholds does, failing the candidates of the
\* manual search whose evaluation raises.  self.router was built from the
\* Route objects of self.routes, which carry the thresholds the router set or
\* fitted; the router the manual method builds has Route objects of its own.
OptimizeThresholds(given, prepared, optimization_method, fit, rebuild, failing) ==
    LET test_data == IF given = <<>> THEN prepared ELSE given
        current_thresholds == trainer.thresholds
        initial_accuracy ==
            EvaluateRouter(RouterOf(current_thresholds), test_data).accuracy
        results(thresholds, accuracy) ==
            [initial_thresholds |-> current_thresholds,
             initial_accuracy |-> initial_accuracy,
             optimized_thresholds |-> thresholds,
             optimized_accuracy |-> accuracy,
             improvement |-> IF IsNone(accuracy) THEN Zero
                             ELSE Improvement(accuracy.val, initial_accuracy),
             method |-> optimization_method]
        call(ran, outcome, thresholds, route_thresholds, searched, res) ==
            [trainer EXCEPT !.op = "optimize_thresholds", !.given = given,
                            !.evaluated = test_data, !.fit = fit.outcome,
                            !.ran = ran, !.outcome = outcome,
                            !.error = IF outcome = "raises" THEN "SemanticRouter"
                                      ELSE "",
                            !.before = current_thresholds,
                            !.thresholds = thresholds,
                            !.route_thresholds = route_thresholds,
                            !.failing = IF "manual" \in Range(ran) THEN failing
                                        ELSE {},
                            !.searched = searched,
                            !.runs = trainer.runs + 1,
                            !.results = res]
        method == IF optimization_method = "automatic" /\ fit.outcome = "raises"
                  THEN FallbackMethod
                  ELSE optimization_method
        ran == IF optimization_method = "automatic"
               THEN IF method = "manual" THEN <<"automatic", "manual">>
                    ELSE <<"automatic">>
               ELSE <<"manual">>
    IN  IF optimization_method = "automatic" /\ fit.outcome = "ok"
        THEN trainer' =
                call(ran, "ok", fit.thresholds, fit.thresholds, <<>>,
                     results(Some(fit.thresholds),
                             Some(EvaluateRouter(RouterOf(fit.thresholds),
                                                 test_data).accuracy)))
        ELSE IF method = "manual"
        THEN LET router == RouterOf(current_thresholds)
                 route_scores == AnalyzeRouteScores(router, test_data)
                 search == ManualSearch(current_thresholds, route_scores,
                                        RouteOrder(test_data), test_data, failing)
                 optimized_thresholds == search.optimized
                 \* optimized_thresholds.get(route.name, route.score_threshold)
                 \* for route in self.routes
                 rebuilt ==
                     [r \in Range(ClsRoutes) |->
                         IF r \in DOMAIN optimized_thresholds
                         THEN optimized_thresholds[r]
                         ELSE trainer.route_thresholds[r]]
             IN  IF rebuild = "raises"
                 THEN trainer' = call(ran, "raises", search.live,
                                      trainer.route_thresholds, search.searched,
                                      results(None, None))
                 ELSE trainer' =
                         call(ran, "ok", rebuilt, trainer.route_thresholds,
                              search.searched,
                              results(Some(optimized_thresholds),
                                      Some(EvaluateRouter(RouterOf(rebuilt),
                                                          test_data).accuracy)))
        ELSE \* the automatic method failed and nothing else was tried
             trainer' = call(ran, "ok", current_thresholds, trainer.route_thresholds,
                             <<>>, results(None, None))

\* one call is made on a trained router in a behaviour
DoEvaluateRouter ==
    /\ trainer.op = "trained"
    /\ \E test_queries \in TestSets :
          LET e == EvaluateRouter(RouterOf(trainer.thresholds), test_queries)
          IN  trainer' = [trainer EXCEPT !.op = "evaluate_router",
                                         !.given = test_queries,
                                         !.evaluated = e.evaluated,
                                         !.outcome = "ok",
                                         !.accuracy = e.accuracy]
    /\ UNCHANGED <<idxVars, callVars, tasks, cls, predictor, files>>

DoEvaluateRouterWithTemp ==
    /\ trainer.op = "trained"
    /\ \E test_data \in TestSets, route_name \in Range(ClsRoutes),
          threshold \in {95 * Scale} :
          LET temp_router == TempRouterOf(trainer.thresholds, route_name, threshold)
          IN  trainer' = [trainer EXCEPT !.op = "_evaluate_router_with_temp",
                                         !.given = test_data,
                                         !.evaluated = test_data,
                                         !.temp_router = Some(temp_router),
                                         !.outcome = "ok",
                                         !.accuracy =
                                             EvaluateRouterWithTemp(temp_router,
                                                                    test_data)]
    /\ UNCHANGED <<idxVars, callVars, tasks, cls, predictor, files>>

DoOptimizeThresholds ==
    /\ trainer.op = "trained"
    /\ \E given \in TestSets, prepared \in PreparedTestData,
          optimization_method \in {"automatic", "manual"},
          fit \in {[outcome |-> "raises", thresholds |-> trainer.thresholds]}
                  \cup {[outcome |-> "ok", thresholds |-> t] : t \in FitThresholds},
          rebuild \in {"ok", "raises"}, failing \in CandidateFailures :
          OptimizeThresholds(given, prepared, optimization_method, fit, rebuild,
                             failing)
    /\ UNCHANGED <<idxVars, callVars, tasks, cls, predictor, files>>

TrainerNext ==
    \/ DoEvaluateRouter
    \/ DoEvaluateRouterWithTemp
    \/ DoOptimizeThresholds

TrainerInit ==
    \* the index is as constructed
    /\ index = None
    /\ routes = None
    /\ utterances = None
    /\ metadata = None
    /\ dimension = None
    /\ ret = [op |-> "init", outcome |-> "ok"]
    /\ deleted = {}
    /\ adds = [ever |-> FALSE, since_reset |-> FALSE]
    /\ inflight = <<>>
    \* no encoder call is under way
    /\ model_name = "BAAI/bge-large-zh-v1.5"
    /\ max_retries = 0
    /\ variant = "__call__"
    /\ truncate = TRUE
    /\ texts = <<>>
    /\ docs = <<>>
    /\ pc = "idle"
    /\ loop_i = 0
    /\ loop_j = 0
    /\ embeds = None
    /\ all_embeddings = <<>>
    /\ result = [status |-> "pending", error |-> "", value |-> <<>>]
    /\ last_outcome = ""
    /\ calls = 0
    /\ batch_calls = 0
    /\ requested = {}
    /\ backoffs = <<>>
    /\ delays = 0
    /\ tasks = <<>>
    /\ cls = <<>>
    /\ predictor = <<>>
    /\ files = <<>>
    \* the router has been trained
    /\ \E thresholds \in TrainedThresholds :
          trainer = [op |-> "trained", thresholds |-> thresholds,
                     route_thresholds |-> thresholds, runs |-> 0,
                     failing |-> {}, searched |-> <<>>,
                     before |-> thresholds, given |-> <<>>, evaluated |-> <<>>,
                     temp_router |-> None, fit |-> "", ran |-> <<>>,
                     outcome |-> "", error |-> "", accuracy |-> Zero,
                     results |-> None]

TrainerSpec == TrainerInit /\ [][TrainerNext]_vars

\* optimize_thresholds with the manual method, called more than once on the
\* same trainer: the largest number of calls, and the evaluation sets given
MaxRuns == 2
RerunPool ==
    {Item(e, e, sc, e, sc, FALSE) : e \in Range(ClsRoutes), sc \in {40, 90}}
RerunSets == UNION {[1..n -> RerunPool] : n \in 1..MaxTest}

DoOptimizeAgain ==
    /\ trainer.op \in {"trained", "optimize_thresholds"}
    /\ trainer.runs < MaxRuns
    /\ \E given \in RerunSets, rebuild \in {"ok", "raises"},
          failing \in {{}, 1..3} :
          OptimizeThresholds(given, <<>>, "manual",
                             [outcome |-> "raises", thresholds |-> trainer.thresholds],
                             rebuild, failing)
    /\ UNCHANGED <<idxVars, callVars, tasks, cls, predictor, files>>

RerunNext == DoOptimizeAgain

RerunSpec == TrainerInit /\ [][RerunNext]_vars

-----------------------------------------------------------------------------
(* IntentRouterTrainer.save_model and IntentRouterPredictor: load_model,     *)
(* predict and predict_batch.                                                *)

\* largest number of queries of a predict_batch call
MaxBatch == 2

\* the routes a trainer has created: names and utterance lists
Route(name, utts) == [name |-> name, utterances |-> utts]
RouteLists ==
    {<<Route("greeting", <<"hi", "hello">>), Route("farewell", <<"bye">>)>>,
     <<Route("farewell", <<"bye", "bye">>), Route("greeting", <<"hello", "hi">>)>>,
     <<Route("greeting", <<"hi">>), Route("farewell", <<"bye">>), Route("help", <<>>)>>}

\* a path: its directory ("" for none), its stem and its extension
Path(dir, ext) == [dir |-> dir, stem |-> "m", ext |-> ext]
SavePaths == {Path("models", ".json"), Path("models", ".pkl"), Path("models", ""),
              Path("", ".json")}
LoadPaths == {Path("models", ".json"), Path("models", ".pkl"), Path("other", ".json")}

\* the .json path save_model writes to, and the .pkl path next to it
JsonPath(save_path) ==
    IF save_path.ext = ".json" THEN save_path ELSE [save_path EXCEPT !.ext = ".json"]
PicklePath(json_path) == [json_path EXCEPT !.ext = ".pkl"]

\* json.dump of the routes: the text as a sequence of tokens, the strings
\* quoted
Str(x) == [t |-> "string", v |-> x]
Tok(x) == [t |-> x]
RECURSIVE DumpRoutes(_)
DumpRoutes(routes_data) ==
    IF routes_data = <<>> THEN <<>>
    ELSE <<Tok("{"), Str("name"), Str(Head(routes_data).name), Str("utterances"),
           Tok("[")>>
         \o [i \in 1..Len(Head(routes_data).utterances) |->
                Str(Head(routes_data).utterances[i])]
         \o <<Tok("]"), Tok("}")>>
         \o DumpRoutes(Tail(routes_data))

\* json.load of that text: the list of {'name': ..., 'utterances': [...]}
RECURSIVE LoadRoutes(_)
LoadRoutes(tokens) ==
    IF tokens = <<>> THEN <<>>
    ELSE LET close == CHOOSE c \in 6..Len(tokens) :
                         /\ tokens[c] = Tok("]")
                         /\ \A d \in 6..(c - 1) : tokens[d] # Tok("]")
         IN  <<[name |-> tokens[3].v,
                utterances |-> [i \in 1..(close - 6) |-> tokens[5 + i].v]]>>
             \o LoadRoutes(SubSeq(tokens, close + 2, Len(tokens)))

\* sum(len(utterances) for utterances in self.training_data.values()), the
\* training data being the utterances the routes were created from
RECURSIVE TotalUtterances(_)
TotalUtterances(rs) ==
    IF rs = <<>> THEN 0 ELSE Len(Head(rs).utterances) + TotalUtterances(Tail(rs))

\* save_data of save_model
SaveData ==
    [encoder_name |-> trainer.encoder_name,
     score_threshold |-> trainer.score_threshold,
     routes |-> DumpRoutes([i \in 1..Len(trainer.routes) |->
                              [name |-> trainer.routes[i].name,
                               utterances |-> trainer.routes[i].utterances]]),
     version |-> "2.0",
     metadata |-> [num_routes |-> Len(trainer.routes),
                   total_utterances |-> TotalUtterances(trainer.routes)]]

\* pickle_data of save_model: the Route objects, and no router
PickleData ==
    [encoder_name |-> trainer.encoder_name,
     score_threshold |-> trainer.score_threshold,
     routes |-> trainer.routes,
     version |-> "2.0",
     metadata |-> [num_routes |-> Len(trainer.routes),
                   total_utterances |-> TotalUtterances(trainer.routes)]]

\* save_model: os.makedirs of an empty directory name raises, which is caught
SaveModel(save_path) ==
    LET json_path == JsonPath(save_path)
    IN  IF json_path.dir = ""
        THEN /\ trainer' = [trainer EXCEPT !.op = "save_model", !.outcome = FALSE]
             /\ UNCHANGED files
        ELSE /\ files' = [files EXCEPT ![json_path] = Some(SaveData),
                                       ![PicklePath(json_path)] = Some(PickleData)]
             /\ trainer' = [trainer EXCEPT !.op = "save_model", !.outcome = TRUE,
                                           !.saved = Some(trainer.routes)]

\* (a variant of RebuildRoutes that takes the routes in reverse)
RebuildRoutesReversed(routes_data) ==
    [i \in 1..Len(routes_data) |->
        Route(routes_data[Len(routes_data) + 1 - i].name,
              routes_data[Len(routes_data) + 1 - i].utterances)]

\* routes = [Route(name=..., utterances=...) for route_data in save_data['routes']]
RebuildRoutes(routes_data) ==
    [i \in 1..Len(routes_data) |->
        Route(routes_data[i].name, routes_data[i].utterances)]

RECURSIVE Flatten(_)
Flatten(lists) == IF lists = <<>> THEN <<>> ELSE Head(lists) \o Flatten(Tail(lists))

\* SemanticRouter(encoder, routes, auto_sync="local"): the routes, and the
\* utterances it has had the encoder embed
BuildRouter(encoder_name, new_routes) ==
    [routes |-> new_routes, encoder_name |-> encoder_name,
     encoded |-> Flatten([i \in 1..Len(new_routes) |-> new_routes[i].utterances])]

\* load_model.  encoder is what the construction of the encoder and of the
\* router does: it works, or raises.  The call returns True or False, or raises.
LoadModel(path, encoder) ==
    LET call(outcome, error) ==
            [predictor EXCEPT !.op = "load_model", !.path = Some(path),
                              !.queries = <<>>, !.return_details = FALSE,
                              !.value = None,
                              !.outcome = outcome, !.error = error]
    IN  IF IsNone(files[path])
        THEN predictor' = call("raises", "FileNotFoundError")
        ELSE IF path.ext = ".json"
        THEN LET save_data == files[path].val
                 new_routes == RebuildRoutes(LoadRoutes(save_data.routes))
             IN  IF encoder = "raises"
                 THEN predictor' = call("False", "encoder")
                 ELSE predictor' =
                         [call("True", "") EXCEPT
                             !.router = Some(BuildRouter(save_data.encoder_name,
                                                         new_routes)),
                             !.model_info =
                                 Some([encoder_name |-> save_data.encoder_name,
                                       score_threshold |-> save_data.score_threshold,
                                       routes |-> new_routes,
                                       metadata |-> save_data.metadata])]
        ELSE \* the pickle file holds no 'router'
             predictor' = call("False", "KeyError")

\* (a variant of OnPredictError that lets the exception through)
OnPredictErrorRaise(return_details, e) == [outcome |-> "raises", value |-> None]

\* the except branch of predict
OnPredictError(return_details, e) ==
    [outcome |-> "ok",
     value |-> IF return_details
               THEN [intent |-> None, score |-> None, error |-> e]
               ELSE None]

\* the thresholds of the router load_model builds: the one saved threshold
LoadedRouter == RouterOf([r \in Range(ClsRoutes) |-> 70 * Scale])

\* the queries asked of the predictor: one that is matched, one below the
\* threshold, one whose classification raises
PredictQueries ==
    {Item("greeting", "greeting", 90, "greeting", 90, FALSE),
     Item("farewell", "farewell", 40, "farewell", 40, FALSE),
     Item("greeting", "greeting", 90, "greeting", 90, TRUE)}

\* predict: what the call does (returns or raises) and its value
Predict(query, return_details) ==
    IF IsNone(predictor.router)
    THEN [outcome |-> "raises", value |-> None]
    ELSE IF query.fails
    THEN OnPredictError(return_details, "Exception")
    ELSE LET r == RouterCall(LoadedRouter, query)
         IN  [outcome |-> "ok",
              value |-> IF return_details
                        THEN IF ~IsNone(r)
                             THEN [intent |-> Some(r.val.name),
                                   score |-> Some(r.val.score), route |-> r]
                             ELSE [intent |-> None, score |-> None, route |-> None]
                        ELSE IF ~IsNone(r) THEN Some(r.val.name) ELSE None]

\* results.append(result)
AppendResult(results, r) ==
    IF r.outcome = "raises" THEN [outcome |-> "raises", value |-> <<>>]
    ELSE [outcome |-> "ok", value |-> Append(results.value, r.value)]

\* predict_batch: the loop over the queries; an exception of predict leaves it
PredictBatch(queries, return_details) ==
    IF IsNone(predictor.router)
    THEN [outcome |-> "raises", value |-> <<>>]
    ELSE LET F[i \in 0..Len(queries)] ==
                 IF i = 0 THEN [outcome |-> "ok", value |-> <<>>]
                 ELSE IF F[i - 1].outcome = "raises" THEN F[i - 1]
                 ELSE AppendResult(F[i - 1], Predict(queries[i], return_details))
         IN  F[Len(queries)]

DoSaveModel ==
    /\ \E save_path \in SavePaths : SaveModel(save_path)
    /\ UNCHANGED <<idxVars, callVars, tasks, cls, predictor>>

\* load_data and create_routes give the trainer other routes
DoCreateRoutes ==
    /\ \E new_routes \in RouteLists \ {trainer.routes} :
          trainer' = [trainer EXCEPT !.op = "create_routes", !.routes = new_routes]
    /\ UNCHANGED <<idxVars, callVars, tasks, cls, predictor, files>>

DoLoadModel ==
    /\ \E path \in LoadPaths, encoder \in {"ok", "raises"} : LoadModel(path, encoder)
    /\ UNCHANGED <<idxVars, callVars, tasks, cls, trainer, files>>

DoPredict ==
    /\ \E query \in PredictQueries, return_details \in BOOLEAN :
          LET r == Predict(query, return_details)
          IN  predictor' = [predictor EXCEPT !.op = "predict", !.queries = <<query>>,
                                             !.path = None, !.error = "",
                                             !.return_details = return_details,
                                             !.outcome = r.outcome,
                                             !.value = r.value]
    /\ UNCHANGED <<idxVars, callVars, tasks, cls, trainer, files>>

DoPredictBatch ==
    /\ \E queries \in UNION {[1..n -> PredictQueries] : n \in 0..MaxBatch},
          return_details \in BOOLEAN :
          LET r == PredictBatch(queries, return_details)
          IN  predictor' = [predictor EXCEPT !.op = "predict_batch",
                                             !.path = None, !.error = "",
                                             !.queries = queries,
                                             !.return_details = return_details,
                                             !.outcome = r.outcome,
                                             !.value = r.value]
    /\ UNCHANGED <<idxVars, callVars, tasks, cls, trainer, files>>

PredictorNext ==
    \/ DoSaveModel
    \/ DoCreateRoutes
    \/ DoLoadModel
    \/ DoPredict
    \/ DoPredictBatch

PredictorInit ==
    \* the index is as constructed
    /\ index = None
    /\ routes = None
    /\ utterances = None
    /\ metadata = None
    /\ dimension = None
    /\ ret = [op |-> "init", outcome |-> "ok"]
    /\ deleted = {}
    /\ adds = [ever |-> FALSE, since_reset |-> FALSE]
    /\ inflight = <<>>
    \* no encoder call is under way
    /\ model_name = "BAAI/bge-large-zh-v1.5"
    /\ max_retries = 0
    /\ variant = "__call__"
    /\ truncate = TRUE
    /\ texts = <<>>
    /\ docs = <<>>
    /\ pc = "idle"
    /\ loop_i = 0
    /\ loop_j = 0
    /\ embeds = None
    /\ all_embeddings = <<>>
    /\ result = [status |-> "pending", error |-> "", value |-> <<>>]
    /\ last_outcome = ""
    /\ calls = 0
    /\ batch_calls = 0
    /\ requested = {}
    /\ backoffs = <<>>
    /\ delays = 0
    /\ tasks = <<>>
    /\ cls = <<>>
    \* a trainer with a trained router, a predictor without a model, no files
    /\ \E new_routes \in RouteLists :
          trainer = [op |-> "trained", routes |-> new_routes,
                     encoder_name |-> "BAAI/bge-large-zh-v1.5",
                     score_threshold |-> 70, outcome |-> TRUE, saved |-> None]
    /\ predictor = [op |-> "init", router |-> None, model_info |-> None,
                    path |-> None, error |-> "", queries |-> <<>>,
                    return_details |-> FALSE, outcome |-> "", value |-> None]
    /\ files = [p \in LoadPaths |-> None]

PredictorSpec == PredictorInit /\ [][PredictorNext]_vars

-----------------------------------------------------------------------------
(* Properties of the index. *)

LenOf(x) == IF IsNone(x) THEN 0 ELSE Len(x.val)
TagsAt(x) == IF IsNone(x) THEN <<>> ELSE Ids(x.val)
ValuesOf(x) == IF IsNone(x) THEN <<>> ELSE Values(x.val)
Populated == ~IsNone(index) /\ ~IsNone(routes) /\ ~IsNone(utterances) /\ ntotal >= 1

\* C1: in every reachable state the routes, utterances and metadata arrays
\* are as long as the ANN structure holds vectors (0 while unpopulated), and
\* position i of each array belongs to the record whose vector is at position
\* i of the ANN structure; no record is stored twice.
C1_ParallelArraysAligned ==
    /\ LenOf(routes) = ntotal
    /\ LenOf(utterances) = ntotal
    /\ LenOf(metadata) = ntotal
    /\ TagsAt(routes) = TagsAt(index)
    /\ TagsAt(utterances) = TagsAt(index)
    /\ TagsAt(metadata) = TagsAt(index)
    /\ \A i, j \in 1..ntotal : i # j => TagsAt(index)[i] # TagsAt(index)[j]

\* a removal that took some records and left others, on an index built by
\* more than one add
C1_Witness ==
    /\ ret.op = "_remove_and_sync"
    /\ ret.outcome = "ok"
    /\ Len(ret.removed) >= 1
    /\ ntotal >= 2
    /\ \E i, j \in 1..ntotal : metadata.val[i].v = EmptyMeta /\ metadata.val[j].v # EmptyMeta

\* the keep-mask the claim describes: true where the route differs from name
RouteDiffers(name) == [i \in 1..LenOf(routes) |-> routes.val[i].v # name]

\* C2 (as claimed): on a populated index delete(name) removes exactly the
\* records whose route is name, whatever their number and positions, and
\* keeps the others in order; with no such record it changes nothing.
C2_DeleteRemovesExactlyRoute ==
    [][(Populated /\ ret'.op = "delete") =>
          /\ ValuesOf(index') = Values(MaskSelect(index.val, RouteDiffers(ret'.route_name)))
          /\ ValuesOf(routes') = Values(MaskSelect(routes.val, RouteDiffers(ret'.route_name)))
          /\ ValuesOf(utterances') =
                Values(MaskSelect(utterances.val, RouteDiffers(ret'.route_name)))
          /\ ValuesOf(metadata') =
                Values(MaskSelect(metadata.val, RouteDiffers(ret'.route_name)))
          /\ ntotal' = ntotal - Len(GetIndicesForRoute(ret'.route_name))]_vars

\* C3: an add on a populated index with vectors of another dimension fails
\* with the dimension-mismatch error and changes nothing.
C3_DimensionMismatchRejected ==
    [][(~IsNone(index) /\ ret'.op = "add"
            /\ Len(ret'.embeddings[1]) # dimension.val) =>
          /\ ret'.outcome = "ValueError"
          /\ UNCHANGED <<index, routes, utterances, metadata, dimension>>]_vars

C3_Witness ==
    /\ ret.op = "add"
    /\ ret.outcome = "ValueError"
    /\ ntotal >= 2
    /\ Len(ret.embeddings) = 2
    /\ Len(ret.embeddings[1]) # dimension.val

\* C4: a successful add, the first or a later one, raises the count by the
\* number of vectors given and puts the new records after the stored ones, in
\* the order given; the stored ones stay as they were.
C4_AddAppends ==
    [][(ret'.op = "add" /\ ret'.outcome = "ok") =>
          /\ ntotal' = ntotal + Len(ret'.embeddings)
          /\ ValuesOf(index') = ValuesOf(index) \o ret'.embeddings
          /\ ValuesOf(routes') = ValuesOf(routes) \o ret'.routes
          /\ ValuesOf(utterances') = ValuesOf(utterances) \o ret'.utterances
          /\ ValuesOf(metadata') =
                ValuesOf(metadata) \o
                (IF ret'.metadata_list # <<>>
                 THEN ret'.metadata_list
                 ELSE [i \in 1..Len(ret'.embeddings) |-> EmptyMeta])]_vars

\* a later add of two records
C4_Witness ==
    /\ ret.op = "add"
    /\ ret.outcome = "ok"
    /\ Len(ret.embeddings) = 2
    /\ ntotal = 3
    /\ ret.routes[1] # ret.routes[2]

\* the positions query ranks: all of them, or those the route filter matches
Candidates(route_filter) ==
    IF IsNone(route_filter)
    THEN 1..ntotal
    ELSE {i \in 1..ntotal : routes.val[i].v \in route_filter.val}


\* the result slots that faiss filled with a stored vector
Hits == {j \in 1..Len(ret.labels) : ret.labels[j] # -1}

C10_AtMostCandidates ==
    (ret.op = "query" /\ ret.outcome = "ok") =>
        /\ Len(ret.route_names) <= Cardinality(Candidates(ret.route_filter))
        /\ \A i, j \in 1..Len(ret.idx) : i # j => ret.idx[i] # ret.idx[j]

\* the (score, route) pairs a query returned
Pairs == [j \in 1..Len(ret.route_names) |->
             [score |-> ret.scores[j], route |-> ret.route_names[j]]]

\* the pairs of a ranking p of positions, cut to the records whose route is in
\* F and then to the first k
FilterThenCut(p, q, F, k) ==
    LET kept == SelectSeq(p, LAMBDA i : routes.val[i].v \in F)
        cut == SubSeq(kept, 1, IF k <= Len(kept) THEN k ELSE Len(kept))
    IN  [j \in 1..Len(cut) |->
            [score |-> [num |-> 1, den |-> 1 + L2sqr(index.val[cut[j]].v, q)],
             route |-> routes.val[cut[j]].v]]

\* C11 (as claimed): a query with a route filter that matches some record
\* returns the pairs, in order, of an unfiltered ranking of all records from
\* which the records of other routes are dropped and the first k kept; every
\* route returned is in the filter.
C11_FilterIsPostFilter ==
    (ret.op = "query" /\ ret.outcome = "ok" /\ ~IsNone(ret.route_filter)) =>
        /\ \E p \in Nearest(index.val, ret.vector, 1..ntotal) :
              Pairs = FilterThenCut(p, ret.vector, ret.route_filter.val, ret.top_k)
        /\ \A j \in 1..Len(ret.route_names) :
              ret.route_names[j] \in ret.route_filter.val

\* the same, for the queries that ask for no more pairs than the filter has
\* records
C11_WithinCandidates ==
    (ret.op = "query" /\ ret.outcome = "ok" /\ ~IsNone(ret.route_filter)
        /\ ret.top_k <= Cardinality(Candidates(ret.route_filter))) =>
        /\ \E p \in Nearest(index.val, ret.vector, 1..ntotal) :
              Pairs = FilterThenCut(p, ret.vector, ret.route_filter.val, ret.top_k)
        /\ \A j \in 1..Len(ret.route_names) :
              ret.route_names[j] \in ret.route_filter.val

\* C12 (as claimed): a query returns no route name for which delete has
\* returned, as long as no add has stored a record of that route since.
C12_DeletedNeverReturned ==
    (ret.op = "query" /\ ret.outcome = "ok") =>
        \A j \in 1..Len(ret.route_names) : ret.route_names[j] \notin deleted

\* the messages of the errors the index raises
NotPopulatedQuery == "Index or routes are not populated."
NotPopulatedDelete ==
    "Attempted to delete route records but either index, routes or utterances is None."
NoMatchingRoutes == "No routes found matching the filter criteria."

\* C13 (as claimed): a query on an index that holds no record fails with the
\* not-populated error and returns no result, whether the index was never
\* added to, was cleared by delete_index or was emptied by removals.
C13_QueryEmptyNotPopulated ==
    (ret.op = "query" /\ ntotal = 0) =>
        /\ ret.outcome = "ValueError"
        /\ ret.error = NotPopulatedQuery
        /\ ret.route_names = <<>>

\* C14 (as claimed): delete on an index that holds no record fails with the
\* not-populated error, whether the index was never added to, was cleared by
\* delete_index or was emptied by removals.
C14_DeleteEmptyNotPopulated ==
    [][(ret'.op = "delete" /\ ntotal = 0) =>
          /\ ret'.outcome = "ValueError"
          /\ ret'.error = NotPopulatedDelete]_vars

\* C15: on a populated index a query whose route filter matches no stored
\* record fails with the no-matching-routes error, returns nothing and leaves
\* the index as it was.
C15_NoMatchingRoutes ==
    [][(ret'.op = "query" /\ Populated /\ ~IsNone(ret'.route_filter)
            /\ Candidates(ret'.route_filter) = {}) =>
          /\ ret'.outcome = "ValueError"
          /\ ret'.error = NoMatchingRoutes
          /\ ret'.route_names = <<>>
          /\ ret'.scores = <<>>
          /\ UNCHANGED <<index, routes, utterances, metadata, dimension>>]_vars

C15_Witness ==
    /\ ret.op = "query"
    /\ ret.error = NoMatchingRoutes
    /\ ntotal >= 2
    /\ ret.route_filter.val \cap {routes.val[i].v : i \in 1..ntotal} = {}

\* C16 (as claimed): once an add has fixed the dimension, no later call
\* changes it.
C16_DimensionNeverChanges ==
    [][~IsNone(dimension) => dimension' = dimension]_vars

\* C16 (amended): once an add has fixed the dimension, add, delete,
\* _remove_and_sync and query leave it as it is, and it is the dimension of
\* every stored vector; delete_index unsets it, for the next add to fix anew.
C16_DimensionFixedUntilDeleteIndex ==
    [][/\ (~IsNone(dimension) /\ ret'.op # "delete_index") => dimension' = dimension
       /\ ret'.op = "delete_index" => IsNone(dimension') /\ IsNone(index')
       /\ (IsNone(dimension) /\ ret'.op = "add" /\ ret'.outcome = "ok") =>
             dimension' = Some(Len(ret'.embeddings[1]))
       /\ \A i \in 1..ntotal' : Len(index'.val[i].v) = dimension'.val]_vars

\* the dimension has outlived the removal of every record
C16_Witness ==
    /\ ~IsNone(dimension)
    /\ dimension.val = 1
    /\ ret.op = "_remove_and_sync"
    /\ Len(ret.removed) >= 1
    /\ ntotal = 0

-----------------------------------------------------------------------------
(* delete, statement by statement, with a reader in another thread.  The    *)
(* class holds no lock; every assignment to a field of self is one step.    *)

\* what a reader can see of the index: the four fields
Visible == <<index, routes, utterances, metadata>>

\* the values of the four fields, without the provenance tags
FieldValues(opt) == IF IsNone(opt) THEN opt ELSE Some(Values(opt.val))
Versions(fields) ==
    <<FieldValues(fields[1]), FieldValues(fields[2]), FieldValues(fields[3]),
      FieldValues(fields[4])>>

Idle == [pc |-> "idle", route_name |-> "", mask |-> <<>>, new_embeds |-> <<>>,
         pre |-> <<>>, post |-> <<>>, seen |-> None]

\* delete up to `new_embeds = self.index.reconstruct_n(0, ntotal)[mask]`: the
\* guards, the early return, and the locals of the rebuild
DeleteCall(route_name) ==
    LET call(outcome, error) ==
            [op |-> "delete", outcome |-> outcome, error |-> error,
             route_name |-> route_name]
    IN  /\ UNCHANGED <<index, routes, utterances, metadata, dimension>>
        /\ IF ~IsNone(index) /\ ~IsNone(routes) /\ ~IsNone(utterances)
           THEN LET delete_idx == GetIndicesForRoute(route_name)
                    mask == DeleteMask(Len(routes.val), delete_idx)
                IN  \E truth \in ArrayTruth(delete_idx) :
                       IF truth = "ValueError"
                       THEN /\ ret' = call("ValueError",
                                            "The truth value of an array is ambiguous.")
                            /\ inflight' = Idle
                       ELSE IF truth = "False"
                       THEN /\ ret' = call("ok", "")
                            /\ inflight' = Idle
                       ELSE IF Len(mask) # ntotal
                       THEN /\ ret' = call("IndexError", "boolean index did not match")
                            /\ inflight' = Idle
                       ELSE /\ ret' = call("running", "")
                            /\ inflight' =
                                  [pc |-> "new_embeds", route_name |-> route_name,
                                   mask |-> mask,
                                   new_embeds |-> MaskSelect(index.val, mask),
                                   pre |-> Versions(Visible),
                                   post |-> Versions(
                                       <<Some(MaskSelect(index.val, mask)),
                                         Some(MaskSelect(routes.val, mask)),
                                         Some(MaskSelect(utterances.val, mask)),
                                         IF IsNone(metadata) THEN metadata
                                         ELSE Some(MaskSelect(metadata.val, mask))>>),
                                   seen |-> None]
           ELSE /\ ret' = call("ValueError",
                                "Attempted to delete route records but either index, routes or utterances is None.")
                /\ inflight' = Idle

\* the next statement of the rebuild
DeleteStep ==
    LET at(label) == [inflight EXCEPT !.pc = label]
        mask == inflight.mask
    IN  IF inflight.pc = "new_embeds"
        THEN \* self.index = faiss.IndexFlatL2(self.dimension)
             /\ index' = Some(<<>>)
             /\ inflight' = at("index")
             /\ UNCHANGED <<routes, utterances, metadata, dimension, ret, deleted>>
        ELSE IF inflight.pc = "index"
        THEN \* self.index.add(new_embeds)
             /\ index' = Some(IndexAdd(index.val, inflight.new_embeds))
             /\ inflight' = at("index.add")
             /\ UNCHANGED <<routes, utterances, metadata, dimension, ret, deleted>>
        ELSE IF inflight.pc = "index.add"
        THEN \* self.routes = self.routes[mask]
             /\ routes' = Some(MaskSelect(routes.val, mask))
             /\ inflight' = at("routes")
             /\ UNCHANGED <<index, utterances, metadata, dimension, ret, deleted>>
        ELSE IF inflight.pc = "routes"
        THEN \* self.utterances = self.utterances[mask]
             /\ utterances' = Some(MaskSelect(utterances.val, mask))
             /\ inflight' = at("utterances")
             /\ UNCHANGED <<index, routes, metadata, dimension, ret, deleted>>
        ELSE \* if self.metadata is not None: self.metadata = self.metadata[mask]
             /\ inflight.pc = "utterances"
             /\ metadata' = IF IsNone(metadata) THEN metadata
                            ELSE Some(MaskSelect(metadata.val, mask))
             /\ inflight' = at("idle")
             /\ ret' = [op |-> "delete", outcome |-> "ok", error |-> "",
                        route_name |-> inflight.route_name]
             /\ deleted' = deleted \cup {inflight.route_name}
             /\ UNCHANGED <<index, routes, utterances, dimension>>

\* the vectors a reader asks about and the numbers of results it asks for
ReaderPool == {<<0>>, <<1, 1>>}
ReaderTopKs == {1, 2}

\* a writer starts only when no delete is under way
DoThreadAdd ==
    /\ inflight.pc = "idle"
    /\ DoAdd

DoDeleteCall ==
    /\ inflight.pc = "idle"
    /\ \E route_name \in RouteNames : DeleteCall(route_name)
    /\ UNCHANGED <<deleted, adds, encVars>>

DoDeleteStep ==
    /\ inflight.pc # "idle"
    /\ DeleteStep
    /\ UNCHANGED <<adds, encVars>>

\* query in another thread, at any statement of the delete
DoReaderQuery ==
    /\ inflight.pc # "idle"
    /\ \E vector \in ReaderPool, top_k \in ReaderTopKs :
          /\ IF IsNone(dimension) THEN TRUE ELSE Len(vector) = dimension.val
          /\ Query(vector, top_k, None)
    /\ inflight' = [inflight EXCEPT !.seen = Some(Versions(Visible))]
    /\ UNCHANGED <<deleted, adds, encVars>>

ThreadsNext ==
    \/ DoThreadAdd
    \/ DoDeleteCall
    \/ DoDeleteStep
    \/ DoReaderQuery

ThreadsInit ==
    /\ index = None
    /\ routes = None
    /\ utterances = None
    /\ metadata = None
    /\ dimension = None
    /\ ret = [op |-> "init", outcome |-> "ok"]
    /\ deleted = {}
    /\ adds = [ever |-> FALSE, since_reset |-> FALSE]
    /\ inflight = [pc |-> "idle", route_name |-> "", mask |-> <<>>,
                   new_embeds |-> <<>>, pre |-> <<>>, post |-> <<>>, seen |-> None]
    \* no encoder call is under way
    /\ model_name = "BAAI/bge-large-zh-v1.5"
    /\ max_retries = 0
    /\ variant = "__call__"
    /\ truncate = TRUE
    /\ texts = <<>>
    /\ docs = <<>>
    /\ pc = "idle"
    /\ loop_i = 0
    /\ loop_j = 0
    /\ embeds = None
    /\ all_embeddings = <<>>
    /\ result = [status |-> "pending", error |-> "", value |-> <<>>]
    /\ last_outcome = ""
    /\ calls = 0
    /\ batch_calls = 0
    /\ requested = {}
    /\ backoffs = <<>>
    /\ delays = 0
    /\ tasks = <<>>
    /\ cls = <<>>
    /\ trainer = <<>>
    /\ predictor = <<>>
    /\ files = <<>>

ThreadsSpec == ThreadsInit /\ [][ThreadsNext]_vars

\* C31: a query that runs while a delete is under way sees the index, routes,
\* utterances and metadata either all as they were before the delete or all as
\* they are after it.
C31_ReaderSeesOneVersion ==
    inflight.pc # "idle" /\ ~IsNone(inflight.seen) =>
        \/ inflight.seen.val = inflight.pre
        \/ inflight.seen.val = inflight.post

\* what the code does keep: before the first and after the last assignment of
\* a delete the reader sees one version
C31_OneVersionAtTheEnds ==
    /\ inflight.pc = "new_embeds" => Versions(Visible) = inflight.pre
    /\ inflight.pc = "idle" /\ ret.op = "delete" /\ ret.outcome = "ok"
       /\ inflight.post # <<>> => Versions(Visible) = inflight.post

-----------------------------------------------------------------------------
(* add called with lists of any lengths. *)

\* the lengths of the lists of one add call; the metadata list may be left out
ListLens == {1, 2}

\* the lists hold one vector, one route name, one utterance and one metadata
\* value, repeated: only their lengths vary
DoAddLists ==
    /\ \E ne \in ListLens, nr \in ListLens, nu \in ListLens, nm \in {0} \cup ListLens :
        /\ ntotal + ne <= MaxRecords
        /\ LenOf(routes) + nr <= MaxRecords
        /\ LenOf(utterances) + nu <= MaxRecords
        /\ LenOf(metadata) + (IF nm = 0 THEN nu ELSE nm) <= MaxRecords
        /\ Add([k \in 1..ne |-> <<0>>], [k \in 1..nr |-> "r1"],
               [k \in 1..nu |-> "u1"], [k \in 1..nm |-> "mA"])
    /\ deleted' = IF ret'.outcome = "ok" THEN deleted \ Range(ret'.routes) ELSE deleted
    /\ adds' = IF ret'.outcome = "ok"
               THEN [ever |-> TRUE, since_reset |-> TRUE]
               ELSE adds
    /\ UNCHANGED <<inflight, encVars>>

AddListsNext ==
    \/ DoAddLists
    \/ DoDeleteIndex

AddListsSpec == IndexInit /\ [][AddListsNext]_vars

\* the lists of the add call that has just returned differ in length
ListsDiffer(call) ==
    \/ Len(call.embeddings) # Len(call.routes)
    \/ Len(call.routes) # Len(call.utterances)
    \/ (call.metadata_list # <<>> /\ Len(call.metadata_list) # Len(call.utterances))

\* C30 (as claimed): an add call whose lists differ in length fails and leaves
\* the index as it was: records are stored only from calls with lists of one
\* length.
C30_UnequalListsStoreNothing ==
    [][(ret'.op = "add" /\ ListsDiffer(ret')) =>
          /\ ret'.outcome # "ok"
          /\ UNCHANGED <<index, routes, utterances, metadata, dimension>>]_vars

-----------------------------------------------------------------------------
(* add on an index without records. *)

\* C32: an add on an index that holds no record (never populated, reset by
\* delete_index, or emptied by removals) succeeds whatever the width of its
\* vectors, and the dimension becomes that width.
C32_AddOnEmptyFixesDimension ==
    [][ret'.op = "add" /\ ntotal = 0 =>
          /\ ret'.outcome = "ok"
          /\ dimension' = Some(Len(ret'.embeddings[1]))]_vars

\* what the code does keep: an add on an index that is None succeeds and fixes
\* the dimension; on an index emptied by removals it succeeds exactly for
\* vectors of the former width
C32_AddOnAbsentIndexFixesDimension ==
    [][ret'.op = "add" /\ ntotal = 0 =>
          IF IsNone(index) \/ dimension = Some(Len(ret'.embeddings[1]))
          THEN /\ ret'.outcome = "ok"
               /\ dimension' = Some(Len(ret'.embeddings[1]))
          ELSE /\ ret'.outcome = "ValueError"
               /\ UNCHANGED <<index, routes, utterances, metadata, dimension>>]_vars

-----------------------------------------------------------------------------
(* Properties of the read-only calls of the index. *)

\* the positions of the stored records whose utterance is text
StoredWith(text) ==
    {i \in 1..LenOf(utterances) : utterances.val[i].v = text}
\* those of them that remain: no delete call has returned for their route
RemainingWith(text) ==
    {i \in StoredWith(text) : i <= LenOf(routes) /\ routes.val[i].v \notin deleted}
\* the answer for text is the vector of the first record at the positions S,
\* and not found if S is empty
AnswersFirstOf(S) ==
    /\ ret.outcome = "ok"
    /\ IF S = {}
       THEN ret.vector = None
       ELSE LET i == CHOOSE k \in S : \A l \in S : k <= l
            IN  /\ ret.vector = Some(index.val[i])
                /\ index.val[i].id = utterances.val[i].id

\* C26 (as claimed): get_vector_by_utterance returns the vector added with the
\* first remaining record whose utterance is the text, and not found exactly
\* when no remaining record has it, the records of deleted routes included.
C26_FirstRemainingVector ==
    ret.op = "get_vector_by_utterance" => AnswersFirstOf(RemainingWith(ret.utterance))

\* what holds of the records that are stored, deleted or not
C26_FirstStoredVector ==
    ret.op = "get_vector_by_utterance" => AnswersFirstOf(StoredWith(ret.utterance))

\* the pairs are the utterances and scores of the records nearest to the
\* vector, in the order of a ranking by distance
PairsOfNearest ==
    \E p \in Nearest(index.val, ret.vector, 1..ntotal) :
        \A j \in 1..Len(ret.pairs) :
            /\ ret.pairs[j].utterance = utterances.val[p[j]]
            /\ ret.pairs[j].score =
                   [num |-> 1, den |-> 1 + L2sqr(index.val[p[j]].v, ret.vector)]

\* C27 (as claimed): get_utterance_by_vector returns at most min(k, count)
\* pairs, the utterances and scores of the records query returns for the
\* vector, in the same order, and an empty list on an index without records.
C27_PairsOfNearestRecords ==
    ret.op = "get_utterance_by_vector" =>
        /\ ret.outcome = "ok"
        /\ Len(ret.pairs) <= Min(ret.top_k, ntotal)
        /\ ntotal = 0 => ret.pairs = <<>>
        /\ ntotal > 0 => PairsOfNearest

\* what holds when the index holds at least top_k records
C27_WithinCount ==
    (ret.op = "get_utterance_by_vector" /\ ret.top_k <= ntotal) =>
        /\ ret.outcome = "ok"
        /\ Len(ret.pairs) = ret.top_k
        /\ PairsOfNearest

\* describe reports the number of vectors held, which is len(index) and the
\* number of stored records, and the width of every stored vector; both are
\* 0 while the index is as constructed
DescribeAgrees ==
    ret.op = "describe" =>
        /\ ret.vectors = ntotal
        /\ ret.vectors = LenOf(routes)
        /\ ret.vectors = LenOf(utterances)
        /\ \A i \in 1..ntotal : Len(index.val[i].v) = ret.dimensions
        /\ IF adds.since_reset
           THEN ~IsNone(dimension) /\ ret.dimensions = dimension.val
           ELSE ret.vectors = 0 /\ ret.dimensions = 0

\* C28 (as claimed): describe reports the stored count and the dimension (0
\* before the first add), and is_ready is false exactly while no add has ever
\* stored anything.
C28_ReadyOnceAdded ==
    /\ DescribeAgrees
    /\ ret.op = "is_ready" => (ret.value <=> adds.ever)

\* C28 (amended): describe reports the stored count and the dimension (0
\* before the first add and after delete_index), and is_ready is false exactly
\* while nothing has been added since construction or the last delete_index.
C28_ReadySinceReset ==
    /\ DescribeAgrees
    /\ ret.op = "is_ready" => (ret.value <=> adds.since_reset)

\* is_ready answers true on an index whose records have all been removed
C28_Witness ==
    /\ ret.op = "is_ready"
    /\ ret.value
    /\ adds.since_reset
    /\ ntotal = 0

-----------------------------------------------------------------------------
(* Properties of the encoder. *)

\* the text the provider is sent for the text t of the caller
Sent(t) == IF truncate THEN Truncate(t) ELSE t

\* C5: when encode succeeds, by __call__ or by acall, the result is as long as
\* the list of texts and its i-th vector is the provider's vector for the i-th
\* text (as it was sent), whatever the number of batches.
C5_ResultAlignedWithTexts ==
    pc = "done" =>
        /\ result.status = "ok"
        /\ Len(result.value) = Len(texts)
        /\ \A k \in 1..Len(texts) : result.value[k] = Embedding(Sent(texts[k]))

C5_Witness ==
    /\ pc = "done"
    /\ variant = "acall"
    /\ Len(texts) > 2 * batch_size
    /\ Len(result.value) = Len(texts)
    /\ calls > 3

\* C6: a batch gets at most max_retries + 1 requests; the wait after the
\* failed attempt j is 2^j seconds and there are at most max_retries waits; a
\* batch whose request succeeds contributes its vectors; with max_retries = 0
\* the first failure fails the call.
C6_BoundedRetriesWithBackoff ==
    /\ batch_calls <= max_retries + 1
    /\ Len(backoffs) <= max_retries
    /\ \A k \in 1..Len(backoffs) :
          /\ backoffs[k].attempt \in 0..(max_retries - 1)
          /\ backoffs[k].seconds = 2 ^ backoffs[k].attempt
          /\ k > 1 => backoffs[k - 1].attempt < backoffs[k].attempt
    /\ (pc = "request" /\ last_outcome = "RateLimitError") =>
          /\ backoffs # <<>>
          /\ backoffs[Len(backoffs)].attempt = loop_j - 1
          /\ batch_calls = loop_j
    /\ last_outcome = "ok" =>
          /\ pc \in {"request", "done"}
          /\ Len(all_embeddings) = (IF pc = "done" THEN Len(docs) ELSE loop_i)
          /\ \A k \in 1..Len(all_embeddings) : all_embeddings[k] = Embedding(docs[k])
    /\ (max_retries = 0 /\ last_outcome = "RateLimitError") =>
          /\ pc = "failed"
          /\ batch_calls = 1

C6_Witness ==
    /\ max_retries = MaxRetries
    /\ last_outcome = "ok"
    /\ batch_calls = max_retries + 1
    /\ Len(backoffs) = max_retries
    /\ backoffs[Len(backoffs)].seconds = 2 ^ (max_retries - 1)
    /\ loop_i = batch_size

\* C7: when the last allowed attempt on a batch fails, the call fails: it
\* returns no vector, those of earlier batches included, and no later batch
\* was or will be requested.
C7_ExhaustedBatchFailsCall ==
    /\ (batch_calls = max_retries + 1 /\ last_outcome \notin {"", "ok"}) => pc = "failed"
    /\ pc = "failed" =>
          /\ result.status = "error"
          /\ result.value = <<>>
          /\ \A b \in requested : b <= loop_i
          /\ ~ENABLED EncoderNext

C7_Witness ==
    /\ pc = "failed"
    /\ max_retries >= 1
    /\ batch_calls = max_retries + 1
    /\ last_outcome \in {"RateLimitError", "empty"}
    /\ loop_i = batch_size
    /\ Len(all_embeddings) = batch_size
    /\ Len(docs) > 2 * batch_size
    /\ result.status = "error"

\* the request made in this step ended in one of the outcomes of the set
FailedWith(outcomes) == calls' = calls + 1 /\ last_outcome' \in outcomes

\* the call ends here in an error, without a wait
AbortsAtOnce ==
    /\ pc' = "failed"
    /\ result'.status = "error"
    /\ backoffs' = (IF loop_j = 0 THEN <<>> ELSE backoffs)
    /\ delays' = delays

\* C8 (as stated): a request that fails with a non-transient error, an
\* authentication failure for one, ends the call at once, without a wait.
C8_NonTransientAborts ==
    [][FailedWith({"AuthenticationError", "TypeError"}) => AbortsAtOnce]_vars

\* C8 (amended): a request that fails with an exception that is not an
\* OpenAIError ends the call at once with a ValueError, without a wait and
\* without another request; an OpenAIError, an authentication failure
\* included, is retried after a wait of 2^j seconds while attempts are left.
C8_NonProviderErrorAborts ==
    [][/\ FailedWith({"TypeError"}) =>
             /\ AbortsAtOnce
             /\ result'.error = "ValueError"
       /\ (FailedWith({"AuthenticationError"}) /\ loop_j < max_retries) =>
             /\ pc' = "request"
             /\ loop_i' = loop_i
             /\ loop_j' = loop_j + 1
             /\ backoffs' # <<>>
             /\ backoffs'[Len(backoffs')] = [attempt |-> loop_j, seconds |-> 2 ^ loop_j]
       /\ pc = "failed" => calls' = calls]_vars

C8_Witness ==
    /\ pc = "failed"
    /\ last_outcome = "TypeError"
    /\ result.error = "ValueError"
    /\ max_retries >= 2
    /\ batch_calls = 1
    /\ loop_i = batch_size
    /\ Len(docs) > 2 * batch_size

\* the positions of docs that were placed in a provider request
Requested ==
    {k \in 1..Len(docs) : \E b \in requested : b < k /\ k <= b + batch_size}

\* C17 (as claimed): with truncation enabled, whatever the model name, every
\* text placed in a provider request has at most token_limit tokens: a text
\* over the limit went out as its first token_limit - 1 tokens and any other
\* text unchanged.
C17_RequestsWithinTokenLimit ==
    truncate =>
        \A k \in Requested :
            /\ docs[k].tokens <= token_limit
            /\ docs[k] = IF texts[k].tokens > token_limit
                         THEN [texts[k] EXCEPT !.tokens = token_limit - 1]
                         ELSE texts[k]

\* the same, for the instances that hold a token encoder (model names outside
\* siliconflow_model_configs)
C17_WithTokenEncoder ==
    (truncate /\ HasTokenEncoder) =>
        \A k \in Requested :
            /\ docs[k].tokens <= token_limit
            /\ docs[k] = IF texts[k].tokens > token_limit
                         THEN [texts[k] EXCEPT !.tokens = token_limit - 1]
                         ELSE texts[k]

-----------------------------------------------------------------------------
(* Properties of concurrent acall invocations. *)

\* what invocation t holds agrees with its own arguments and its own attempts
TaskOwnState(t) ==
    LET S == tasks[t]
        sent == [k \in 1..Len(S.texts) |->
                    IF S.truncate THEN Truncate(S.texts[k]) ELSE S.texts[k]]
    IN  /\ S.pc # "called" => S.docs = sent
        /\ S.pc \in {"create", "backoff"} =>
              /\ S.batch = Batch(sent, S.loop_i)
              /\ S.batch_calls = S.loop_j + 1
              /\ Len(S.all_embeddings) = S.loop_i
        /\ S.batch_calls <= max_retries + 1
        /\ Len(S.backoffs) <= max_retries
        /\ \A k \in 1..Len(S.backoffs) :
              S.backoffs[k].seconds = 2 ^ S.backoffs[k].attempt
        /\ \A k \in 1..Len(S.all_embeddings) : S.all_embeddings[k] = Embedding(sent[k])
        /\ S.pc = "done" =>
              /\ S.result.status = "ok"
              /\ Len(S.result.value) = Len(S.texts)
              /\ \A k \in 1..Len(S.texts) : S.result.value[k] = Embedding(sent[k])
        /\ S.pc = "failed" => S.result.status = "error" /\ S.result.value = <<>>

\* a step of one invocation leaves the other as it is
TaskFrame ==
    \A t, u \in TaskIds : (t # u /\ tasks'[t] # tasks[t]) => tasks'[u] = tasks[u]

\* C18: however two acall invocations on one instance interleave at their
\* awaits, each returns the vectors of its own texts in its own order, and the
\* attempts, batches and result of one are untouched by the steps, failures
\* and retries of the other.
C18_ConcurrentCallsIndependent ==
    /\ [](\A t \in TaskIds : TaskOwnState(t))
    /\ [][TaskFrame]_vars

\* one invocation has failed on its second batch, the other has returned the
\* vectors of two batches after a retry
C18_Witness ==
    /\ tasks[1].pc = "failed"
    /\ tasks[1].loop_i = batch_size
    /\ tasks[2].pc = "done"
    /\ Len(tasks[2].result.value) = batch_size + 1
    /\ tasks[2].backoffs # <<>>
    /\ tasks[2].result.value[1] = Embedding(Truncate(Text(201)))

-----------------------------------------------------------------------------
(* Properties of the classifier. *)

\* the routes among the hits, and those of them no other route outscores
HitRoutes == {cls.hits[i].route : i \in 1..Len(cls.hits)}
Highest ==
    {r \in HitRoutes : \A q \in HitRoutes :
        ScoreGeq(Aggregate(cls.hits, r, cls.aggregation),
                 Aggregate(cls.hits, q, cls.aggregation))}
\* route r's aggregate reaches its own threshold, or the default if it has none
Clears(r) ==
    LET a == Aggregate(cls.hits, r, cls.aggregation)
        t == IF cls.thresholds[r] = None THEN cls.default ELSE cls.thresholds[r].val
    IN  a.num >= t * a.den

BestScore(r) ==
    LET own == {cls.hits[i].score : i \in {j \in 1..Len(cls.hits) : cls.hits[j].route = r}}
    IN  IF own = {} THEN 0 ELSE CHOOSE x \in own : \A y \in own : y <= x

\* greeting at threshold 0.8 and farewell at 0.5, and a query whose best
\* similarity to greeting is 0.6 and to farewell 0.55
Scenario4 ==
    /\ cls.classified
    /\ cls.aggregation = "max"
    /\ cls.thresholds["greeting"] = Some(80)
    /\ cls.thresholds["farewell"] = Some(50)
    /\ BestScore("greeting") = 60
    /\ BestScore("farewell") = 55

\* C20 (as claimed): in scenario 4 the query is classified as farewell.
C20_Scenario4Farewell == Scenario4 => cls.choice = "farewell"

\* what classify answers in scenario 4: no match, greeting having the highest
\* score and not reaching its threshold
C20_Scenario4NoMatch == Scenario4 => cls.choice = "none"

-----------------------------------------------------------------------------
(* Properties of the trainer. *)

\* the number of queries of D the router answers with the route they are
\* labelled with, a query that raises not being one of them
CorrectIn(D, router) ==
    Cardinality({i \in 1..Len(D) :
                    /\ ~D[i].fails
                    /\ ~IsNone(RouterCall(router, D[i]))
                    /\ RouterCall(router, D[i]).val.name = D[i].expected})
\* the fraction a is correct / total x 100 over D, and 0 if D is empty
IsAccuracyOver(a, D, router) ==
    IF D = <<>> THEN a.num = 0
    ELSE a.num * Len(D) = CorrectIn(D, router) * 100 * a.den
SameFraction(a, b) == a.num * b.den = b.num * a.den
\* an optimize_thresholds call that began with the automatic method, whose
\* fit raised
FitFailed ==
    /\ trainer.op = "optimize_thresholds"
    /\ trainer.results.method = "automatic"
    /\ trainer.fit = "raises"
\* the intents that label a query of the evaluated set which does not raise
AnalysedIntents ==
    {trainer.evaluated[i].expected :
        i \in {j \in 1..Len(trainer.evaluated) : ~trainer.evaluated[j].fails}}

\* C22: when the automatic method's fit raises, the manual search runs in the
\* same call and the error of fit does not leave the call; the result the
\* call returns carries the manual search's thresholds (one for every intent
\* it analysed, installed in the router), the accuracy measured with them and
\* the improvement over the initial accuracy.
C22_FitFailureFallsBackToManual ==
    FitFailed =>
        /\ trainer.ran = <<"automatic", "manual">>
        /\ trainer.outcome = "raises" => trainer.error = "SemanticRouter"
        /\ trainer.outcome = "ok" =>
              LET r == trainer.results
              IN  /\ ~IsNone(r.optimized_thresholds)
                  /\ ~IsNone(r.optimized_accuracy)
                  /\ DOMAIN r.optimized_thresholds.val = AnalysedIntents
                  /\ \A i \in AnalysedIntents :
                        trainer.thresholds[i] = r.optimized_thresholds.val[i]
                  /\ IsAccuracyOver(r.optimized_accuracy.val, trainer.evaluated,
                                    RouterOf(trainer.thresholds))
                  /\ SameFraction(r.improvement,
                                  Improvement(r.optimized_accuracy.val,
                                              r.initial_accuracy))

\* fit raised, and the manual search returned thresholds that improve the
\* accuracy
C22_Witness ==
    /\ FitFailed
    /\ trainer.outcome = "ok"
    /\ trainer.results.improvement.num > 0
    /\ Len(trainer.evaluated) = MaxTest

\* an optimize_thresholds call in which the manual search ran and returned
ManualReturned ==
    /\ trainer.op = "optimize_thresholds"
    /\ "manual" \in Range(trainer.ran)
    /\ trainer.outcome = "ok"

\* C23 (as claimed): the accuracy the manual search reports after optimization
\* is not lower than the initial accuracy (improvement >= 0), and the router
\* with the thresholds it installs answers at least as many queries of the
\* evaluation set correctly as the router before.
C23_ManualNeverDecreasesAccuracy ==
    ManualReturned =>
        LET r == trainer.results
        IN  /\ r.optimized_accuracy.val.num * r.initial_accuracy.den
                  >= r.initial_accuracy.num * r.optimized_accuracy.val.den
            /\ r.improvement.num >= 0
            /\ CorrectIn(trainer.evaluated, RouterOf(trainer.thresholds))
                  >= CorrectIn(trainer.evaluated, RouterOf(trainer.before))

\* one route's threshold is raised and the accuracy improves
C23_Witness ==
    /\ ManualReturned
    /\ trainer.results.improvement.num > 0
    /\ \E r \in Range(ClsRoutes) : trainer.thresholds[r] > trainer.before[r]

\* what the manual search of the last call worked on: the scores observed for
\* route r, its candidates, and the accuracy measured for candidate k on the
\* temporary router built from the router of before the call
ObservedScores(r) ==
    AnalyzeRouteScores(RouterOf(trainer.before), trainer.evaluated)[r]
GridOf(r) == SearchRange(MinOf(ObservedScores(r)), MaxOf(ObservedScores(r)))
CandidateAccuracy(r, k) ==
    EvaluateRouterWithTemp(TempRouterOf(trainer.before, r, GridOf(r)[k]),
                           trainer.evaluated)
Above(a, b) == a.num * b.den > b.num * a.den
\* candidate k of route r is the first of the candidates in K with the
\* highest accuracy measured among them
FirstBestOf(r, k, K) ==
    /\ k \in K
    /\ \A j \in K : ~Above(CandidateAccuracy(r, j), CandidateAccuracy(r, k))
    /\ \A j \in K : j < k => Above(CandidateAccuracy(r, k), CandidateAccuracy(r, j))
\* the candidates are 20 evenly spaced thresholds from 0.8 x the lowest to
\* 1.2 x the highest observed score (thresholds are in 1/Scale of a hundredth)
EvenlySpaced(r) ==
    LET c == GridOf(r)
    IN  /\ Len(c) = 20
        /\ 10 * c[1] = 8 * MinOf(ObservedScores(r)) * Scale
        /\ 10 * c[20] = 12 * MaxOf(ObservedScores(r)) * Scale
        /\ \A k \in 2..19 : c[k] - c[k - 1] = c[k + 1] - c[k]
        /\ \A k \in 1..19 : c[k] <= c[k + 1]

\* C35 (as claimed): the threshold found for a route with an observed score is
\* the first of the 20 evenly spaced candidates that has the highest accuracy
\* among them, and so always one of the candidates.
C35_FirstBestCandidate ==
    ManualReturned =>
        \A r \in DOMAIN trainer.results.optimized_thresholds.val :
            /\ EvenlySpaced(r)
            /\ \E k \in 1..GridPoints :
                   /\ trainer.results.optimized_thresholds.val[r] = GridOf(r)[k]
                   /\ FirstBestOf(r, k, 1..GridPoints)

\* C35 (amended): the threshold found is the first of the candidates whose
\* evaluation did not raise that has the highest accuracy among them, if
\* that accuracy is above 0, and the threshold the route had otherwise.
C35_FirstBestEvaluatedCandidate ==
    ManualReturned =>
        \A r \in DOMAIN trainer.results.optimized_thresholds.val :
            LET evaluated == (1..GridPoints) \ trainer.failing
                found == trainer.results.optimized_thresholds.val[r]
            IN  /\ EvenlySpaced(r)
                /\ IF \E k \in evaluated : Above(CandidateAccuracy(r, k), Zero)
                   THEN \E k \in evaluated : /\ found = GridOf(r)[k]
                                              /\ FirstBestOf(r, k, evaluated)
                   ELSE found = trainer.before[r]

\* the first three candidates raised and the fourth, the first of the best
\* of the others, was found
C35_Witness ==
    /\ ManualReturned
    /\ trainer.failing = 1..3
    /\ \E r \in DOMAIN trainer.results.optimized_thresholds.val :
          /\ trainer.results.optimized_thresholds.val[r] = GridOf(r)[4]
          /\ GridOf(r)[4] # GridOf(r)[1]
          /\ \E k \in 5..GridPoints :
                ~Above(CandidateAccuracy(r, 4), CandidateAccuracy(r, k))

\* no candidate had an accuracy above 0 and the route kept its threshold,
\* which is none of the candidates
KeptThreshold ==
    /\ ManualReturned
    /\ trainer.failing = {}
    /\ \E r \in DOMAIN trainer.results.optimized_thresholds.val :
          /\ trainer.results.optimized_thresholds.val[r] = trainer.before[r]
          /\ \A k \in 1..GridPoints : trainer.before[r] # GridOf(r)[k]

\* C36: in a manual run every search is made with the router at the
\* thresholds of before the run, and the threshold found for a route is the
\* one a search of that route alone on that router finds, whatever was found
\* for the routes searched before it.
C36_RoutesSearchedIndependently ==
    (trainer.op = "optimize_thresholds" /\ "manual" \in Range(trainer.ran)) =>
        /\ \A i \in 1..Len(trainer.searched) :
               trainer.searched[i].thresholds = trainer.before
        /\ trainer.outcome = "ok" =>
               \A r \in DOMAIN trainer.results.optimized_thresholds.val :
                   trainer.results.optimized_thresholds.val[r] =
                       FindBestThreshold(RouterOf(trainer.before), r,
                                         ObservedScores(r), trainer.evaluated,
                                         trainer.before[r], trainer.failing).threshold

\* two routes were searched and the first search changed its route's threshold
C36_Witness ==
    /\ ManualReturned
    /\ Len(trainer.searched) = 2
    /\ trainer.searched[1].route_name # trainer.searched[2].route_name
    /\ trainer.results.optimized_thresholds.val[trainer.searched[1].route_name]
          # trainer.before[trainer.searched[1].route_name]

\* every accuracy the last call reported is the accuracy over the set E
AccuraciesOver(E) ==
    /\ trainer.op = "evaluate_router" =>
          IsAccuracyOver(trainer.accuracy, E, RouterOf(trainer.thresholds))
    /\ trainer.op = "_evaluate_router_with_temp" =>
          IsAccuracyOver(trainer.accuracy, E, trainer.temp_router.val)
    /\ (trainer.op = "optimize_thresholds" /\ trainer.outcome = "ok") =>
          /\ IsAccuracyOver(trainer.results.initial_accuracy, E,
                            RouterOf(trainer.before))
          /\ ~IsNone(trainer.results.optimized_accuracy) =>
                IsAccuracyOver(trainer.results.optimized_accuracy.val, E,
                               RouterOf(trainer.thresholds))

\* C24 (as claimed): every accuracy the trainer reports is correct / total x
\* 100 over the evaluation set the call was given, a query that raises
\* counting as incorrect, and 0 when that set is empty.
C24_AccuracyOverGivenSet == AccuraciesOver(trainer.given)

\* what holds of the set the call evaluated, which is the given one unless
\* that is empty
C24_AccuracyOverEvaluatedSet ==
    /\ AccuraciesOver(trainer.evaluated)
    /\ trainer.given # <<>> => trainer.evaluated = trainer.given

\* the manual search ran in the last call
ManualRan == trainer.op = "optimize_thresholds" /\ "manual" \in Range(trainer.ran)

\* C40 (as claimed): the searches leave the live router as it was, the router
\* changes only when the rebuilt one is installed (not when the rebuild
\* raises), and a route without an evaluation example has in the installed
\* router the threshold it had in the live router before.
C40_SearchLeavesLiveRouter ==
    ManualRan =>
        /\ \A i \in 1..Len(trainer.searched) :
               trainer.searched[i].thresholds = trainer.before
        /\ trainer.outcome = "raises" => trainer.thresholds = trainer.before
        /\ trainer.outcome = "ok" =>
               \A r \in Range(ClsRoutes) :
                   r \notin DOMAIN trainer.results.optimized_thresholds.val =>
                       trainer.thresholds[r] = trainer.before[r]

\* the part that holds: nothing changes before the rebuilt router is
\* installed, and a route without an evaluation example gets the threshold
\* of its Route object in self.routes
C40_UnsearchedRoutesFromSelfRoutes ==
    ManualRan =>
        /\ \A i \in 1..Len(trainer.searched) :
               trainer.searched[i].thresholds = trainer.before
        /\ trainer.outcome = "raises" => trainer.thresholds = trainer.before
        /\ trainer.outcome = "ok" =>
               \A r \in Range(ClsRoutes) :
                   r \notin DOMAIN trainer.results.optimized_thresholds.val =>
                       trainer.thresholds[r] = trainer.route_thresholds[r]

-----------------------------------------------------------------------------
(* Properties of the predictor and of the saved model. *)

\* the predictor holds a router
Loaded == predictor.op # "init" /\ ~IsNone(predictor.router)

\* what the router answers to a query that does not fail, as predict reports it
Answer(query, return_details) ==
    LET r == RouterCall(LoadedRouter, query)
    IN  IF return_details
        THEN IF IsNone(r) THEN [intent |-> None, score |-> None, route |-> None]
             ELSE [intent |-> Some(r.val.name), score |-> Some(r.val.score),
                   route |-> r]
        ELSE IF IsNone(r) THEN None ELSE Some(r.val.name)

\* the no-match value together with an error detail
NoMatchWithError(value) ==
    /\ DOMAIN value = {"intent", "score", "error"}
    /\ value.intent = None
    /\ value.score = None
    /\ value.error = "Exception"

\* the result of the i-th query of the last call
ResultOf(i) ==
    IF predictor.op = "predict" THEN predictor.value ELSE predictor.value[i]

\* predict_batch has returned one result per query, in the order of the
\* queries, where every failed query has the result given by failed
BatchInOrder ==
    predictor.op = "predict_batch" /\ Loaded =>
        /\ predictor.outcome = "ok"
        /\ Len(predictor.value) = Len(predictor.queries)
        /\ \A i \in 1..Len(predictor.queries) :
              ~predictor.queries[i].fails =>
                  predictor.value[i] = Answer(predictor.queries[i],
                                              predictor.return_details)

\* C25 (as stated): when the classification of a query raises in a loaded
\* predictor, predict does not raise and returns the no-match value together
\* with an error detail whether return_details is set or not, and
\* predict_batch returns one result per query in input order.
C25_FailureReturnsErrorDetail ==
    /\ BatchInOrder
    /\ predictor.op \in {"predict", "predict_batch"} /\ Loaded =>
          /\ predictor.outcome = "ok"
          /\ \A i \in 1..Len(predictor.queries) :
                predictor.queries[i].fails => NoMatchWithError(ResultOf(i))

\* C25 (amended): when the classification of a query raises in a loaded
\* predictor, predict does not raise; with return_details it returns the
\* no-match value together with an error detail, without return_details it
\* returns the bare no-match value None; predict_batch returns one result per
\* query in input order also when some queries fail.
C25_FailureReturnsNoMatch ==
    /\ BatchInOrder
    /\ predictor.op \in {"predict", "predict_batch"} /\ Loaded =>
          /\ predictor.outcome = "ok"
          /\ \A i \in 1..Len(predictor.queries) :
                predictor.queries[i].fails =>
                    IF predictor.return_details
                    THEN NoMatchWithError(ResultOf(i))
                    ELSE ResultOf(i) = None

\* a batch whose first query fails and whose second query is matched
C25_Witness ==
    /\ predictor.op = "predict_batch"
    /\ Loaded
    /\ Len(predictor.queries) = 2
    /\ predictor.queries[1].fails
    /\ ~predictor.queries[2].fails
    /\ predictor.outcome = "ok"
    /\ Len(predictor.value) = 2
    /\ predictor.value[1] = None
    /\ predictor.value[2] = Some("greeting")

\* the names and the utterance lists of a list of routes, in order
NamesAndUtterances(rs) ==
    [i \in 1..Len(rs) |-> <<rs[i].name, rs[i].utterances>>]

\* C29: a load_model that succeeds on a document written by save_model leaves
\* a router with the route names and utterance lists, in order, of the
\* trainer's routes when the document was saved; the document holds no
\* embeddings and the router has had the encoder embed every utterance; the
\* document's metadata.num_routes is the length of its routes list.
C29_LoadRebuildsSavedRoutes ==
    [][(/\ trainer' = trainer
        /\ files' = files
        /\ predictor'.op = "load_model"
        /\ predictor'.outcome = "True") =>
          LET path == predictor'.path.val
              document == files[path].val
              saved == trainer.saved.val
              router == predictor'.router.val
          IN  /\ NamesAndUtterances(router.routes) = NamesAndUtterances(saved)
              /\ "embeddings" \notin DOMAIN document
              /\ router.encoded =
                     Flatten([i \in 1..Len(saved) |-> saved[i].utterances])
              /\ document.metadata.num_routes = Len(LoadRoutes(document.routes))
              /\ document.metadata.num_routes = Len(saved)]_vars

\* a model with three routes, one of them without utterances, has been loaded
\* after the trainer had gone on to other routes
C29_Witness ==
    /\ predictor.op = "load_model"
    /\ predictor.outcome = "True"
    /\ ~IsNone(trainer.saved)
    /\ Len(predictor.router.val.routes) = 3
    /\ predictor.router.val.routes = trainer.saved.val
    /\ trainer.routes # trainer.saved.val

-----------------------------------------------------------------------------
(* Properties of the encoder's batches. *)

\* ceil(n / batch_size)
Batches(n) == (n + batch_size - 1) \div batch_size

\* the offset of the batch the last request was for
LastOffset == IF pc = "request" /\ loop_j = 0 THEN loop_i - batch_size ELSE loop_i

\* C33: every provider request carries between 1 and 30 texts, the texts of
\* the input from the request's offset on and in input order; the batches are
\* requested in input order, none skipped; a call that succeeds has requested
\* ceil(n/30) batches and its result is the concatenation of the answers, so a
\* call in which no request fails makes exactly ceil(n/30) requests, and a
\* call for no text makes none.
C33_BatchesInInputOrder ==
    /\ last_outcome = "ok" =>
          /\ Len(embeds.val) \in 1..30
          /\ \/ LastOffset + Len(embeds.val) = Len(texts)
             \/ Len(embeds.val) = 30 /\ LastOffset + 30 < Len(texts)
          /\ embeds.val =
                 [k \in 1..Len(embeds.val) |->
                     Embedding(Sent(texts[LastOffset + k]))]
    /\ calls > 0 =>
          requested = {30 * b : b \in 0..(Cardinality(requested) - 1)}
    /\ calls >= Cardinality(requested)
    /\ Len(texts) = 0 => calls = 0
    /\ pc = "done" =>
          /\ Cardinality(requested) = Batches(Len(texts))
          /\ result.value = [k \in 1..Len(texts) |-> Embedding(Sent(texts[k]))]

\* a call for 61 texts has succeeded with exactly three requests
C33_Witness ==
    /\ pc = "done"
    /\ Len(texts) = 61
    /\ calls = 3
    /\ requested = {0, 30, 60}
    /\ Len(embeds.val) = 1
    /\ Len(result.value) = 61

\* C34: a call that succeeds over m batches has slept m - 1 times between
\* batches (never for a single batch or for no text); every such sleep follows
\* the successful answer for a batch that is not the last and precedes the
\* first request of the next batch, and there is no other.
C34_DelaysBetweenBatches ==
    /\ [](pc = "done" =>
            delays = IF Len(texts) = 0 THEN 0 ELSE Batches(Len(texts)) - 1)
    /\ [][IF calls' # calls /\ last_outcome' = "ok" /\ loop_i + 30 < Len(texts)
          THEN /\ delays' = delays + 1
               /\ pc' = "request"
               /\ loop_i' = loop_i + 30
               /\ loop_j' = 0
          ELSE delays' = delays]_vars

\* a call over three batches has succeeded after failed requests, with two
\* sleeps between batches
C34_Witness ==
    /\ pc = "done"
    /\ Len(texts) = 61
    /\ calls > 3
    /\ delays = 2


\* C37: an answer with an empty data list is followed at once, without a
\* backoff and without the delay between batches, by another request for
\* the same batch while fewer than max_retries + 1 have been made, and by
\* the failure of the whole call with the no-embeddings ValueError when it
\* answers the last attempt; no batch is requested more than max_retries + 1
\* times.
C37_EmptyAnswerIsRetriedThenFails ==
    /\ [](batch_calls <= max_retries + 1)
    /\ [][(calls' # calls /\ last_outcome' = "empty") =>
            /\ backoffs' = (IF loop_j = 0 THEN <<>> ELSE backoffs)
            /\ delays' = delays
            /\ all_embeddings' = all_embeddings
            /\ IF loop_j < max_retries
               THEN /\ pc' = "request"
                    /\ loop_i' = loop_i
                    /\ loop_j' = loop_j + 1
                    /\ result' = result
               ELSE /\ pc' = "failed"
                    /\ result' = [status |-> "error", error |-> "ValueError",
                                  value |-> <<>>]]_vars

\* every answer for the second batch was empty: max_retries + 1 requests
\* without a backoff, and the call failed
C37_Witness ==
    /\ pc = "failed"
    /\ result.error = "ValueError"
    /\ last_outcome = "empty"
    /\ max_retries >= 1
    /\ loop_i = batch_size
    /\ batch_calls = max_retries + 1
    /\ backoffs = <<>>

-----------------------------------------------------------------------------
(* Properties of _remove_and_sync. *)

\* the elements of s at the positions in K, in the order of s
Pick(s, K) ==
    [j \in 1..Cardinality(K) |->
        s[CHOOSE i \in K : Cardinality({k \in K : k < i}) = j - 1]]

\* the elements of arr at the positions in K, in the order of arr, each with
\* the record it belongs to (records are numbered in the order of their tags)
Kept(arr, K) ==
    LET p == Pick(arr, K)
        S == {p[j].id : j \in 1..Len(p)}
    IN  [j \in 1..Len(p) |->
            [id |-> Cardinality({u \in S : u <= p[j].id}), v |-> p[j].v]]

\* C38: a _remove_and_sync that returns removes the records whose (route,
\* utterance) pair is listed and no other, leaves the others in their order
\* in all four arrays, and returns the pairs of the removed records, as many
\* as the count decreases by.
C38_RemovesListedPairs ==
    [][(ret'.op = "_remove_and_sync" /\ ret'.outcome = "ok") =>
        LET n == Len(routes.val)
            listed == {i \in 1..n :
                         <<routes.val[i].v, utterances.val[i].v>>
                             \in ret'.routes_to_delete}
            kept == (1..n) \ listed
            pairs == [i \in 1..n |-> <<routes.val[i].v, utterances.val[i].v>>]
        IN  /\ index'.val = Kept(index.val, kept)
            /\ routes'.val = Kept(routes.val, kept)
            /\ utterances'.val = Kept(utterances.val, kept)
            /\ IF IsNone(metadata) THEN IsNone(metadata')
               ELSE metadata'.val = Kept(metadata.val, kept)
            /\ Ids(index'.val) = Ids(routes'.val)
            /\ Ids(routes'.val) = Ids(utterances'.val)
            /\ ret'.removed = Pick(pairs, listed)
            /\ Len(index'.val) = Len(index.val) - Len(ret'.removed)]_vars

\* one record of a route was removed and another record of that route stayed
C38_Witness ==
    /\ ret.op = "_remove_and_sync"
    /\ ret.outcome = "ok"
    /\ Len(ret.removed) >= 1
    /\ \E i \in 1..Len(routes.val) : routes.val[i].v = ret.removed[1][1]

-----------------------------------------------------------------------------
(* The read-only calls as a frame condition. *)

ReadOps ==
    {"query", "get_vector_by_utterance", "get_utterance_by_vector",
     "get_utterances", "describe", "is_ready"}

\* C39: a step of query, get_vector_by_utterance, get_utterance_by_vector,
\* get_utterances, describe or is_ready, whether it returns or raises, leaves
\* the stored vectors, the dimension, routes, utterances and metadata as they
\* were.
C39_ReadsLeaveIndexUnchanged ==
    [][ret'.op \in ReadOps =>
        /\ index' = index
        /\ dimension' = dimension
        /\ routes' = routes
        /\ utterances' = utterances
        /\ metadata' = metadata]_vars

\* a query that raised on an index emptied by _remove_and_sync
C39_Witness ==
    /\ ret.op = "query"
    /\ ret.outcome # "ok"
    /\ ~IsNone(index)
    /\ ~IsNone(dimension)
=============================================================================
